---------------------------- MODULE Spec2Model ----------------------------
(***************************************************************************)
(* A model of mercury's protocol identification and parsing code:          *)
(*   - udp_get_message_type           (src/src/libmerc/udp.cc)             *)
(*   - mysql_server_greet             (src/src/libmerc/mysql.hpp)          *)
(*   - tofsee_initial_message         (src/src/libmerc/tofsee.hpp)         *)
(*   - http_headers::parse            (src/src/http.h)                     *)
(* Bytes are integers 0..255.  A cursor (datum) is a record                *)
(* [null, bytes]: the bytes that remain in its range, or null.             *)
(* The helpers of datum.h, match.h and extractor.cc are not part of the    *)
(* sources at hand; they follow the description of the cursor, the encoded *)
(* field reader and the pattern matcher in the specification.              *)
(***************************************************************************)
EXTENDS Integers, Sequences, FiniteSets, TLC

VARIABLES
    udp_data,     \* memory starting at the UDP payload (payload, then what follows it)
    udp_len,      \* the len argument of udp_get_message_type
    udp_pc,       \* "idle" | "call" | "done"
    udp_ret       \* the returned enum udp_msg_type

udp_vars == <<udp_data, udp_len, udp_pc, udp_ret>>

VARIABLES
    mysql_in,     \* the packet handed to mysql_server_greet and how it was built
    mysql_pc,     \* "idle" | "new" | "constructed"
    mysql_rec,    \* the members of the mysql_server_greet object
    mysql_pkt,    \* the caller's cursor pkt, which the constructor consumes
    mysql_out,    \* the calls made on the json emitter, in order
    mysql_writes  \* the number of write_json calls made on the record

mysql_vars == <<mysql_in, mysql_pc, mysql_rec, mysql_pkt, mysql_out, mysql_writes>>

VARIABLES
    tofsee_in,     \* the bytes of the cursor handed to tofsee_initial_message
    tofsee_pc,     \* "idle" | "new" | "constructed"
    tofsee_msg,    \* the members of the tofsee_initial_message object
    tofsee_ct,     \* the caller's cursor ct after the construction
    tofsee_out,    \* the calls made on the json emitter, in order
    tofsee_writes, \* the number of write_json calls made on the object
    ut_pc,         \* unit_test(): "idle" | "start" | "done"
    ut_result,     \* the value unit_test() returned
    ut_checks      \* the checks unit_test() performed before it returned

tofsee_vars == <<tofsee_in, tofsee_pc, tofsee_msg, tofsee_ct, tofsee_out,
                 tofsee_writes, ut_pc, ut_result, ut_checks>>

VARIABLES
    http_buf,      \* the bytes of the buffer that the cursor p ranges over
    http_start,    \* the value of p.data when parse(p) is called
    http_p,        \* the cursor p: [data, data_end], offsets into http_buf
    http_hdr,      \* the http_headers object: [data, data_end, complete]
    http_pc        \* "idle" | "start" | "loop" | "after_loop" | "done"

http_vars == <<http_buf, http_start, http_p, http_hdr, http_pc>>

VARIABLES
    api_lib,       \* the library at lib_path: [loads, symbols]
    api_pc,        \* "idle" | "new" | "constructed" | "threw" | "destroyed"
    api_obj,       \* the libmerc_api object: [libmerc_version, dl_handle, ptrs]
    api_ret,       \* the value bind() returned
    api_call,      \* the outcome of fprint_analysis_context: "none" | "returned"
                   \* | "null_function_pointer_called"
    api_dl         \* the calls of the dynamic loader made so far, in order:
                   \* "dlopen" (one that returned a handle), "dlclose",
                   \* "dlclose_null" (dlclose of a null handle)

api_vars == <<api_lib, api_pc, api_obj, api_ret, api_call, api_dl>>

VARIABLES
    dec_in,        \* the ciphertext as it was when decrypt was called
    dec_cipher,    \* the bytes at the argument ciphertext
    dec_len,       \* the argument data_len
    dec_st,        \* the locals of decrypt: [i, res, c_off, plaintext]
    dec_pc         \* "idle" | "call" | "loop" | "done"

dec_vars == <<dec_in, dec_cipher, dec_len, dec_st, dec_pc>>

VARIABLES
    main_env,      \* what main of libmerc_util finds: its arguments, the
                   \* library, the results of the library calls, the PCAP file
    main_pc,       \* the position in main: "idle" | "start" | "try" | "init" |
                   \* "construct" | "open" | "loop" | "destruct" | "finalize" |
                   \* "end_try" | "catch" | "returned" | "exited"
    main_i,        \* the local i: the packets read so far
    main_log,      \* the calls made on the loader and the library, in order
    main_ret       \* the value returned by main or passed to exit

main_vars == <<main_env, main_pc, main_i, main_log, main_ret>>

vars == <<udp_vars, mysql_vars, tofsee_vars, http_vars, api_vars, dec_vars,
          main_vars>>

\* the variables that the operations of one component leave alone
NotUdp    == <<mysql_vars, tofsee_vars, http_vars, api_vars, dec_vars,
               main_vars>>
NotMysql  == <<udp_vars, tofsee_vars, http_vars, api_vars, dec_vars,
               main_vars>>
NotTofsee == <<udp_vars, mysql_vars, http_vars, api_vars, dec_vars,
               main_vars>>
NotHttp   == <<udp_vars, mysql_vars, tofsee_vars, api_vars, dec_vars,
               main_vars>>
NotApi    == <<udp_vars, mysql_vars, tofsee_vars, http_vars, dec_vars,
               main_vars>>
NotDec    == <<udp_vars, mysql_vars, tofsee_vars, http_vars, api_vars,
               main_vars>>
NotMain   == <<udp_vars, mysql_vars, tofsee_vars, http_vars, api_vars,
               dec_vars>>

(***************************************************************************)
(* Bit operations on unsigned integers                                     *)
(***************************************************************************)
RECURSIVE BitAnd(_, _)
BitAnd(a, b) ==
    IF a = 0 \/ b = 0 THEN 0
    ELSE (a % 2) * (b % 2) + 2 * BitAnd(a \div 2, b \div 2)

RECURSIVE BitXor(_, _)
BitXor(a, b) ==
    IF a = 0 THEN b
    ELSE IF b = 0 THEN a
    ELSE ((a + b) % 2) + 2 * BitXor(a \div 2, b \div 2)

RECURSIVE PopCount(_)
PopCount(x) == IF x = 0 THEN 0 ELSE (x % 2) + PopCount(x \div 2)

Byte == 0..255

(***************************************************************************)
(* udp.cc: the mask and value tables                                       *)
(***************************************************************************)
dtls_client_hello_mask ==
    << 255, 255, 240, 0, 0, 0, 0, 0,  0, 0, 0, 0, 0, 255, 0, 0 >>
dtls_client_hello_value ==
    << 22, 254, 240, 0, 0, 0, 0, 0,  0, 0, 0, 0, 0, 1, 0, 0 >>
dtls_server_hello_mask ==
    << 255, 255, 240, 0, 0, 0, 0, 0,  0, 0, 0, 0, 0, 255, 0, 0 >>
dtls_server_hello_value ==
    << 22, 254, 240, 0, 0, 0, 0, 0,  0, 0, 0, 0, 0, 2, 0, 0 >>
dhcp_client_value == << 1, 1, 6, 0, 0, 0, 0, 0 >>
dhcp_client_mask  == << 255, 255, 255, 255, 0, 0, 0, 0 >>
dns_server_mask   == << 0, 0, 255, 255, 255, 0, 255, 0 >>
dns_server_value  == << 0, 0, 129, 128, 0, 0, 0, 0 >>
dns_client_mask   == << 0, 0, 255, 255, 255, 0, 255, 0 >>
\* a variant of dns_client_value that repeats the flags of the server rule
dns_client_value_with_server_flags == << 0, 0, 129, 128, 0, 0, 0, 0 >>
dns_client_value  == << 0, 0, 1, 0, 0, 0, 0, 0 >>
wireguard_mask    == << 255, 255, 255, 255, 0, 0, 0, 0 >>
wireguard_value   == << 1, 0, 0, 0, 0, 0, 0, 0 >>
quic_mask         == << 240, 0, 255, 255, 0, 0, 0, 0 >>
quic_value        == << 192, 0, 0, 0, 0, 0, 0, 0 >>

(***************************************************************************)
(* match.h: the comparison of two machine words of masked data with a      *)
(* value.  A word of w bytes is the w bytes at data[k*w .. k*w + w - 1];   *)
(* words are equal iff their bytes are, whatever the byte order.  The      *)
(* function reads 2*w bytes of data without looking at any length.         *)
(***************************************************************************)
MaskedWordEq(data, mask, value, k, w) ==
    \A j \in 1..w :
        BitAnd(data[k * w + j], mask[k * w + j]) = value[k * w + j]

u32_compare_masked_data_to_value(data, mask, value) ==
    MaskedWordEq(data, mask, value, 0, 4) /\ MaskedWordEq(data, mask, value, 1, 4)

u64_compare_masked_data_to_value(data, mask, value) ==
    MaskedWordEq(data, mask, value, 0, 8) /\ MaskedWordEq(data, mask, value, 1, 8)

(***************************************************************************)
(* udp.cc: udp_get_message_type(udp_data, len).  data is the memory at     *)
(* udp_data: its first len bytes are the payload, the bytes after them are *)
(* whatever lies behind the payload.                                       *)
(***************************************************************************)
\* a variant of the function without the test of len
udp_get_message_type_no_length_check(data, len) ==
    IF u32_compare_masked_data_to_value(data, dhcp_client_mask, dhcp_client_value)
    THEN "udp_msg_type_dhcp"
    ELSE IF u64_compare_masked_data_to_value(data, dtls_client_hello_mask,
                                             dtls_client_hello_value)
    THEN "udp_msg_type_dtls_client_hello"
    ELSE IF u64_compare_masked_data_to_value(data, dtls_server_hello_mask,
                                             dtls_server_hello_value)
    THEN "udp_msg_type_dtls_server_hello"
    ELSE IF u32_compare_masked_data_to_value(data, dns_server_mask, dns_server_value)
    THEN "udp_msg_type_dns"
    ELSE IF u32_compare_masked_data_to_value(data, dns_client_mask, dns_client_value)
    THEN "udp_msg_type_dns"
    ELSE IF u32_compare_masked_data_to_value(data, wireguard_mask, wireguard_value)
    THEN "udp_msg_type_wireguard"
    ELSE IF u32_compare_masked_data_to_value(data, quic_mask, quic_value)
    THEN "udp_msg_type_quic"
    ELSE "udp_msg_type_unknown"

\* a variant of the function in which the DNS client rule was left out
udp_get_message_type_without_dns_client(data, len) ==
    IF len < Len(dhcp_client_mask) THEN "udp_msg_type_unknown"
    ELSE IF u32_compare_masked_data_to_value(data, dhcp_client_mask, dhcp_client_value)
    THEN "udp_msg_type_dhcp"
    ELSE IF u64_compare_masked_data_to_value(data, dtls_client_hello_mask,
                                             dtls_client_hello_value)
    THEN "udp_msg_type_dtls_client_hello"
    ELSE IF u64_compare_masked_data_to_value(data, dtls_server_hello_mask,
                                             dtls_server_hello_value)
    THEN "udp_msg_type_dtls_server_hello"
    ELSE IF u32_compare_masked_data_to_value(data, dns_server_mask, dns_server_value)
    THEN "udp_msg_type_dns"
    ELSE IF u32_compare_masked_data_to_value(data, wireguard_mask, wireguard_value)
    THEN "udp_msg_type_wireguard"
    ELSE IF u32_compare_masked_data_to_value(data, quic_mask, quic_value)
    THEN "udp_msg_type_quic"
    ELSE "udp_msg_type_unknown"

udp_get_message_type(data, len) ==
    IF len < Len(dhcp_client_mask) THEN "udp_msg_type_unknown"
    ELSE IF u32_compare_masked_data_to_value(data, dhcp_client_mask, dhcp_client_value)
    THEN "udp_msg_type_dhcp"
    ELSE IF u64_compare_masked_data_to_value(data, dtls_client_hello_mask,
                                             dtls_client_hello_value)
    THEN "udp_msg_type_dtls_client_hello"
    ELSE IF u64_compare_masked_data_to_value(data, dtls_server_hello_mask,
                                             dtls_server_hello_value)
    THEN "udp_msg_type_dtls_server_hello"
    ELSE IF u32_compare_masked_data_to_value(data, dns_server_mask, dns_server_value)
    THEN "udp_msg_type_dns"
    ELSE IF u32_compare_masked_data_to_value(data, dns_client_mask, dns_client_value)
    THEN "udp_msg_type_dns"
    ELSE IF u32_compare_masked_data_to_value(data, wireguard_mask, wireguard_value)
    THEN "udp_msg_type_wireguard"
    ELSE IF u32_compare_masked_data_to_value(data, quic_mask, quic_value)
    THEN "udp_msg_type_quic"
    ELSE "udp_msg_type_unknown"

(***************************************************************************)
(* The UDP payloads of the model.  The memory at udp_data holds            *)
(* UdpMemLen bytes; each byte is drawn from the values the rules test at   *)
(* its position and one or two others.  The payload is the first udp_len   *)
(* bytes; the bytes behind it are not part of the packet.                  *)
(***************************************************************************)
MaxUdpExtra == 0

UdpMemLen == Len(dtls_client_hello_mask) + MaxUdpExtra

UdpByteChoices(i) ==
    CASE i = 1  -> {0, 1, 22, 192, 207}
      [] i = 2  -> {0, 1, 254}
      [] i = 3  -> {0, 1, 6, 129, 240, 253}
      [] i = 4  -> {0, 128}
      [] i = 5  -> {0, 1}
      [] i = 7  -> {0, 1}
      [] i = 14 -> {0, 1, 2}
      [] OTHER  -> {0}

RECURSIVE UdpMemoriesOfLen(_)
UdpMemoriesOfLen(n) ==
    IF n = 0 THEN { << >> }
    ELSE { Append(m, b) : m \in UdpMemoriesOfLen(n - 1), b \in UdpByteChoices(n) }

UdpMemories == UdpMemoriesOfLen(UdpMemLen)

UdpLengths == {0, 7, 8, 12, 15} \cup (16..UdpMemLen)

UdpInit ==
    /\ udp_data \in UdpMemories
    /\ udp_len \in UdpLengths
    /\ udp_pc = "call"
    /\ udp_ret = "none"

UdpIdle ==
    /\ udp_data = << >>
    /\ udp_len = 0
    /\ udp_pc = "idle"
    /\ udp_ret = "none"

UdpClassify ==
    /\ udp_pc = "call"
    /\ udp_ret' = udp_get_message_type(udp_data, udp_len)
    /\ udp_pc' = "done"
    /\ UNCHANGED <<udp_data, udp_len>>
    /\ UNCHANGED NotUdp

(***************************************************************************)
(* datum.h: the cursor.  A datum is null, or holds the bytes that remain   *)
(* in its range.  Every read is checked against the remaining length; a    *)
(* read of more bytes than remain nulls the cursor, and a null cursor has  *)
(* length 0 and stays null.                                                *)
(***************************************************************************)
NullDatum == [null |-> TRUE, bytes |-> << >>]

DatumOf(bytes) == [null |-> FALSE, bytes |-> bytes]

length(d) == IF d.null THEN 0 ELSE Len(d.bytes)

Drop(seq, n) == SubSeq(seq, n + 1, Len(seq))

\* datum::skip(n)
skip(d, n) ==
    IF d.null \/ Len(d.bytes) < n THEN NullDatum
    ELSE DatumOf(Drop(d.bytes, n))

\* datum::parse(r, num_bytes) and the constructor datum{r, num_bytes}: the
\* new datum d and the cursor r after the call
datum_parse(r, num_bytes) ==
    IF length(r) < num_bytes
    THEN [d |-> NullDatum, r |-> NullDatum]
    ELSE [d |-> DatumOf(SubSeq(r.bytes, 1, num_bytes)),
          r |-> DatumOf(Drop(r.bytes, num_bytes))]

\* datum::find_delim(delim): the offset of the first byte equal to delim, or -1
find_delim(d, delim) ==
    IF d.null \/ \A i \in 1..Len(d.bytes) : d.bytes[i] # delim THEN -1
    ELSE (CHOOSE i \in 1..Len(d.bytes) :
              /\ d.bytes[i] = delim
              /\ \A j \in 1..(i - 1) : d.bytes[j] # delim) - 1

\* datum::trim(n): drops the last n bytes
trim(d, n) ==
    IF d.null THEN d
    ELSE IF Len(d.bytes) < n THEN DatumOf(<< >>)
    ELSE DatumOf(SubSeq(d.bytes, 1, Len(d.bytes) - n))

(***************************************************************************)
(* datum.h: encoded<T>{d, little_endian}.  Reads sizeof(T) bytes, in       *)
(* network (big-endian) order unless little_endian is set; on underflow    *)
(* the cursor is nulled and the value is 0.                                *)
(***************************************************************************)
RECURSIVE BigEndian(_)
BigEndian(bytes) ==
    IF bytes = << >> THEN 0
    ELSE bytes[Len(bytes)] + 256 * BigEndian(SubSeq(bytes, 1, Len(bytes) - 1))

RECURSIVE LittleEndian(_)
LittleEndian(bytes) ==
    IF bytes = << >> THEN 0
    ELSE bytes[1] + 256 * LittleEndian(Drop(bytes, 1))

encoded(d, width, little_endian) ==
    IF length(d) < width
    THEN [val |-> 0, d |-> NullDatum]
    ELSE [val |-> IF little_endian THEN LittleEndian(SubSeq(d.bytes, 1, width))
                  ELSE BigEndian(SubSeq(d.bytes, 1, width)),
          d |-> DatumOf(Drop(d.bytes, width))]

(***************************************************************************)
(* mysql.hpp: mysql_server_greet::mysql_server_greet(datum &pkt).          *)
(* ord is the order in which the three operands of the sum that            *)
(* initialises len are evaluated (the language leaves it open): the i-th   *)
(* byte read is shifted by ord[i].  junk holds the values of the four      *)
(* flags that an early return leaves uninitialised.  truncated records     *)
(* whether some read or skip that was executed found fewer bytes than it   *)
(* asked for, and stages records, for each of the reads of the body that   *)
(* was executed, the cursor before and after it.  The result is the        *)
(* object, with the caller's cursor as pkt.                                *)
(***************************************************************************)
Pow2(k) == IF k = 0 THEN 1 ELSE IF k = 8 THEN 256 ELSE 65536

EvalOrders ==
    { <<0, 8, 16>>, <<0, 16, 8>>, <<8, 0, 16>>, <<8, 16, 0>>, <<16, 0, 8>>, <<16, 8, 0>> }

JunkFlags ==
    [if_auth_plugin : BOOLEAN, is_ver_less_41 : BOOLEAN,
     is_mariadb : BOOLEAN, partial_salt : BOOLEAN]

\* the version lambda: the bytes up to and including the first NUL
mysql_version(pkt) ==
    LET off == find_delim(pkt, 0) IN
    IF off < 0 THEN [val |-> NullDatum, d |-> pkt]
    ELSE [val |-> DatumOf(SubSeq(pkt.bytes, 1, off + 1)), d |-> skip(pkt, off + 1)]

\* the member initialisers that read the cursor, in declaration order
MemberInitialisers ==
    << [name |-> "len_1",           kind |-> "u8"],
       [name |-> "len_2",           kind |-> "u8"],
       [name |-> "len_3",           kind |-> "u8"],
       [name |-> "pkt_num",         kind |-> "u8"],
       [name |-> "proto",           kind |-> "u8"],
       [name |-> "version",         kind |-> "version"],
       [name |-> "thread_id",       kind |-> "u32_le"],
       [name |-> "salt_1",          kind |-> "datum_9"],
       [name |-> "cap",             kind |-> "u16_le"],
       [name |-> "collation",       kind |-> "u8"],
       [name |-> "srv_status",      kind |-> "u16_le"],
       [name |-> "ext_cap",         kind |-> "u16_le"],
       [name |-> "auth_plugin_len", kind |-> "u8"] >>

ReadMember(kind, d) ==
    CASE kind = "u8"      -> encoded(d, 1, FALSE)
      [] kind = "u16_le"  -> encoded(d, 2, TRUE)
      [] kind = "u32_le"  -> encoded(d, 4, TRUE)
      [] kind = "version" -> mysql_version(d)
      [] kind = "datum_9" -> [val |-> datum_parse(d, 9).d, d |-> datum_parse(d, 9).r]

RECURSIVE ReadMembers(_, _, _)
ReadMembers(list, d, acc) ==
    IF list = << >> THEN [vals |-> acc, pkt |-> d]
    ELSE ReadMembers(Tail(list), ReadMember(Head(list).kind, d).d,
                     acc @@ (Head(list).name :> ReadMember(Head(list).kind, d).val))

MembersRecord(r, ord) ==
    [ len             |-> r.vals.len_1 * Pow2(ord[1]) + r.vals.len_2 * Pow2(ord[2])
                          + r.vals.len_3 * Pow2(ord[3]),
      pkt_num         |-> r.vals.pkt_num,
      proto           |-> r.vals.proto,
      version         |-> r.vals.version,
      thread_id       |-> r.vals.thread_id,
      salt_1          |-> r.vals.salt_1,
      cap             |-> r.vals.cap,
      collation       |-> r.vals.collation,
      srv_status      |-> r.vals.srv_status,
      ext_cap         |-> r.vals.ext_cap,
      auth_plugin_len |-> r.vals.auth_plugin_len,
      salt_2          |-> NullDatum,
      valid           |-> TRUE,
      mariadb_ext_cap |-> 0,
      auth_plugin     |-> NullDatum,
      truncated       |-> r.pkt.null,
      stages          |-> << >>,
      pkt             |-> r.pkt ]

mysql_server_greet_members(pkt, ord) ==
    MembersRecord(ReadMembers(MemberInitialisers, pkt, << >>), ord)

\* the record of a read of the body: the cursor before and after it
Stage(name, before, after) == [stage |-> name, before |-> before, after |-> after]

\* the object with the members in upd assigned
Assign(m, upd) ==
    [ f \in (DOMAIN m) \cup (DOMAIN upd) |-> IF f \in DOMAIN upd THEN upd[f] ELSE m[f] ]

\* valid = false; return: the flags not yet assigned hold what was in memory
EarlyReturn(m, junk) ==
    [ f \in (DOMAIN m) \cup (DOMAIN junk) |->
        IF f = "valid" THEN FALSE
        ELSE IF f \in DOMAIN m THEN m[f]
        ELSE junk[f] ]

\* the check of the version string: at least 6 bytes, the last one NUL
version_ok(version) ==
    ~ (length(version) < 6 \/ version.bytes[Len(version.bytes)] # 0)

\* a version test that counts 4.1 itself as older than 4.1
is_ver_less_41_through_41(maj_ver, min_ver) ==
    (maj_ver < 52) \/ (maj_ver = 52 /\ min_ver <= 49)

is_ver_less_41_of(maj_ver, min_ver) ==
    (maj_ver < 52) \/ (maj_ver = 52 /\ min_ver < 49)

\* MySQL before version 5 has no auth plugin
plugin_before_5(maj_ver, if_auth_plugin) == maj_ver < 53 /\ if_auth_plugin

\* a MariaDB test that takes a version string of 9 bytes as MariaDB
is_mariadb_from_9(version, cap) == length(version) >= 9 \/ BitAnd(cap, 1) = 0

is_mariadb_of(version, cap) == length(version) > 9 \/ BitAnd(cap, 1) = 0

\* a check of the second salt fragment that looks at the terminator only when
\* the fragment was read
salt_2_accepts_null(salt_2) ==
    salt_2.null \/ (length(salt_2) = 13 /\ salt_2.bytes[13] = 0)

\* the check of the second salt fragment: 13 bytes, the last one NUL
salt_2_ok(salt_2) == ~ (length(salt_2) # 13 \/ salt_2.bytes[13] # 0)

\* a constructor that does not look at what is left in the cursor
trailing_unchecked(pkt) == TRUE

\* the final check: nothing is left in the cursor
trailing_ok(pkt) == length(pkt) = 0

\* if (pkt.length()) { valid = false; return; }
greet_trailing(m, junk) ==
    IF ~ trailing_ok(m.pkt) THEN EarlyReturn(m, junk) ELSE m

\* if (if_auth_plugin) { auth_plugin.parse(pkt, auth_plugin_len+1); }
greet_auth_plugin(m, junk) ==
    IF m.if_auth_plugin
    THEN greet_trailing(
             Assign(m, [auth_plugin |-> datum_parse(m.pkt, m.auth_plugin_len + 1).d,
                        pkt         |-> datum_parse(m.pkt, m.auth_plugin_len + 1).r,
                        truncated   |-> m.truncated
                                        \/ length(m.pkt) < m.auth_plugin_len + 1,
                        stages      |-> Append(m.stages,
                            Stage("auth_plugin", m.pkt,
                                  datum_parse(m.pkt, m.auth_plugin_len + 1).r))]),
             junk)
    ELSE greet_trailing(m, junk)

\* if (partial_salt) { salt_2.parse(pkt,13); if (...) { valid = false; return; } }
greet_salt_2(m, junk) ==
    IF m.partial_salt
    THEN IF ~ salt_2_ok(datum_parse(m.pkt, 13).d)
         THEN EarlyReturn(Assign(m, [salt_2    |-> datum_parse(m.pkt, 13).d,
                                     pkt       |-> datum_parse(m.pkt, 13).r,
                                     truncated |-> m.truncated \/ length(m.pkt) < 13,
                                     stages    |-> Append(m.stages,
                                         Stage("salt_2", m.pkt, datum_parse(m.pkt, 13).r))]),
                          junk)
         ELSE greet_auth_plugin(Assign(m, [salt_2 |-> datum_parse(m.pkt, 13).d,
                                           pkt    |-> datum_parse(m.pkt, 13).r,
                                           stages |-> Append(m.stages,
                                               Stage("salt_2", m.pkt,
                                                     datum_parse(m.pkt, 13).r))]),
                                junk)
    ELSE greet_auth_plugin(m, junk)

\* if (is_mariadb) { pkt.skip(6); mariadb_ext_cap = encoded<uint32_t>{pkt}.value(); }
\* else { pkt.skip(10); }
greet_reserved(m, junk) ==
    IF m.is_mariadb
    THEN greet_salt_2(
             Assign(m, [mariadb_ext_cap |-> encoded(skip(m.pkt, 6), 4, FALSE).val,
                        pkt             |-> encoded(skip(m.pkt, 6), 4, FALSE).d,
                        truncated       |-> m.truncated \/ length(m.pkt) < 10,
                        stages          |-> Append(m.stages,
                            Stage("reserved", m.pkt, encoded(skip(m.pkt, 6), 4, FALSE).d))]),
             junk)
    ELSE greet_salt_2(
             Assign(m, [pkt       |-> skip(m.pkt, 10),
                        truncated |-> m.truncated \/ length(m.pkt) < 10,
                        stages    |-> Append(m.stages,
                            Stage("reserved", m.pkt, skip(m.pkt, 10)))]),
             junk)

\* from if_auth_plugin = (auth_plugin_len > 0) to is_mariadb = ...
greet_flags(m, junk) ==
    IF plugin_before_5(m.version.bytes[1], m.auth_plugin_len > 0)
    THEN EarlyReturn(
             Assign(m, [if_auth_plugin |-> m.auth_plugin_len > 0,
                        is_ver_less_41 |-> is_ver_less_41_of(m.version.bytes[1],
                                                             m.version.bytes[3])]),
             junk)
    ELSE greet_reserved(
             Assign(m, [if_auth_plugin |-> m.auth_plugin_len > 0,
                        is_ver_less_41 |-> is_ver_less_41_of(m.version.bytes[1],
                                                             m.version.bytes[3]),
                        partial_salt   |-> ~ is_ver_less_41_of(m.version.bytes[1],
                                                               m.version.bytes[3]),
                        is_mariadb     |-> is_mariadb_of(m.version, m.cap)]),
             junk)

\* the body of the constructor
greet_body(m, junk) ==
    IF ~ version_ok(m.version) THEN EarlyReturn(m, junk) ELSE greet_flags(m, junk)

mysql_server_greet(pkt0, ord, junk) ==
    greet_body(mysql_server_greet_members(pkt0, ord), junk)

(***************************************************************************)
(* mysql.hpp: the name tables of the bit fields and of the collations      *)
(***************************************************************************)
options ==
    << "LONG_PASSWORD", "FOUND_ROWS", "LONG_FLAG", "CONNECT_WITH_DB", "NO_SCHEMA",
       "COMPRESS", "ODBC", "LOCAL_FILES", "IGNORE_SPACE", "PROTOCOL_41",
       "INTERACTIVE", "SSL", "IGNORE_SIGPIPE", "TRANSACTIONS", "RESERVED",
       "SECURE_CONNECTION" >>

extended_options ==
    << "MULTI_STATEMENTS", "MULTI_RESULTS", "PS_MULTI_RESULTS", "PLUGIN_AUTH",
       "CONNECT_ATTRS", "PLUGIN_AUTH_LENENC_CLIENT_DATA",
       "CAN_HANDLE_EXPIRED_PASSWORD", "SESSION_TRACK", "DEPRECATE_EOF",
       "OPTIONAL_RESULTSET_METADATA", "ZSTD_COMPRESSION_ALGORITHM",
       "QUERY_ATTRIBUTES", "MULTI_FACTOR_AUTHENTICATION", "CAPABILITY_EXTENSION",
       "SSL_VERIFY_SERVER_CERT", "REMEMBER_OPTIONS" >>

server_status_str ==
    << "STATUS_IN_TRANS", "STATUS_AUTOCOMMIT", "MORE_RESULTS_EXISTS",
       "QUERY_NO_GOOD_INDEX_USED", "QUERY_NO_INDEX_USED", "STATUS_CURSOR_EXISTS",
       "STATUS_LAST_ROW_SENT", "STATUS_DB_DROPPED", "STATUS_NO_BACKSLASH_ESCAPES",
       "STATUS_METADATA_CHANGED", "QUERY_WAS_SLOW", "PS_OUT_PARAMS",
       "STATUS_IN_TRANS_READONLY", "SESSION_STATE_CHANGED", "RESERVED" >>

\* the number of entries of mysql_collations; entry i is named by its index
mysql_collations_count == 272

\* mysql_collations[i] (i counts from 0): the entry, or whatever the read
\* outside the array yields
mysql_collations(i, oob) ==
    IF 0 <= i /\ i < mysql_collations_count THEN <<"mysql_collations", i>> ELSE oob

\* table[i] of a name table (i counts from 0)
NameTableRead(table, i, oob) ==
    IF 0 <= i /\ i < Len(table) THEN table[i + 1] ELSE oob

RECURSIVE Pow2N(_)
Pow2N(i) == IF i = 0 THEN 1 ELSE 2 * Pow2N(i - 1)

BitSet(val, i) == (val \div Pow2N(i)) % 2 = 1

\* the loop of the three bit-field decoders: the names of the set bits 0..15
RECURSIVE BitNames(_, _, _, _)
BitNames(val, table, i, oob) ==
    IF i = 16 THEN << >>
    ELSE (IF BitSet(val, i)
          THEN << <<"print_string", NameTableRead(table, i, oob)>> >>
          ELSE << >>) \o BitNames(val, table, i + 1, oob)

\* capabilities::write_json, extended_capabilities::write_json and
\* server_status::write_json
bitfield_write_json(key, array_key, val, table, output_metadata, oob) ==
    << <<"print_key_hex", key, val>> >>
    \o (IF output_metadata
        THEN << <<"json_array", array_key>> >> \o BitNames(val, table, 0, oob)
             \o << <<"close", array_key>> >>
        ELSE << >>)

\* the salt that write_json assembles, with one byte too many of each fragment
mysql_salt_keeps_terminators(rec) ==
    IF ~ rec.partial_salt
    THEN rec.salt_1
    ELSE DatumOf(rec.salt_1.bytes \o rec.salt_2.bytes)

\* the salt that write_json assembles
mysql_salt(rec) ==
    IF ~ rec.partial_salt
    THEN trim(rec.salt_1, 1)
    ELSE DatumOf(SubSeq(rec.salt_1.bytes, 1, length(rec.salt_1) - 1)
                 \o SubSeq(rec.salt_2.bytes, 1, length(rec.salt_2) - 1))

\* write_json without the test of valid
mysql_write_json_unguarded(rec, output_metadata, oob) ==
    << <<"json_object", "mysql_server">>,
       <<"print_key_json_string", "version", rec.version>>,
       <<"close", "mysql_server">> >>

\* mysql_server_greet::write_json(record, output_metadata): the calls made on
\* the emitter.  oob is what a read outside a name table yields.
mysql_write_json(rec, output_metadata, oob) ==
    IF ~ rec.valid THEN << >>
    ELSE
       << <<"json_object", "mysql_server">>,
          <<"print_key_json_string", "version", rec.version>> >>
    \o (IF output_metadata THEN << <<"print_key_int", "pkt_num", rec.pkt_num>> >>
        ELSE << >>)
    \o << <<"print_key_json_string", "salt", mysql_salt(rec)>> >>
    \o bitfield_write_json("capabilities_value", "capabilities_str", rec.cap,
                           options, output_metadata, oob)
    \o << <<"print_key_string", "collation",
            mysql_collations(rec.collation - 1, oob)>> >>
    \o bitfield_write_json("server_status_value", "server_status_str",
                           rec.srv_status, server_status_str, output_metadata, oob)
    \o bitfield_write_json("extended_capabilities_value", "ext_capabilities_str",
                           rec.ext_cap, extended_options, output_metadata, oob)
    \o (IF rec.auth_plugin_len # 0
        THEN << <<"print_key_int", "auth_plugin_len", rec.auth_plugin_len>>,
                <<"print_key_json_string", "auth_plugin", rec.auth_plugin>> >>
        ELSE << >>)
    \o (IF rec.is_mariadb
        THEN << <<"print_key_bool", "mariadb", TRUE>>,
                <<"print_key_int", "mariadb_extended", rec.mariadb_ext_cap>> >>
        ELSE << <<"print_key_bool", "mariadb", FALSE>> >>)
    \o << <<"close", "mysql_server">> >>

(***************************************************************************)
(* The MySQL packets of the model: well-formed greetings built field by    *)
(* field, every prefix of them, the greeting without the NUL of its        *)
(* version string, the greeting followed by one more byte, greetings with  *)
(* longer version strings, and greetings with another length field.        *)
(***************************************************************************)
Ver_5_7_0     == << 53, 46, 55, 46, 48, 0 >>
Ver_4_1_2     == << 52, 46, 49, 46, 50, 0 >>
Ver_4_0_1     == << 52, 46, 48, 46, 49, 0 >>
Ver_3_2_1     == << 51, 46, 50, 46, 49, 0 >>
Ver_5_5_5_10  == << 53, 46, 53, 46, 53, 45, 49, 48, 46, 52, 0 >>
Ver_5_7       == << 53, 46, 55, 0 >>

MysqlVersions == { Ver_5_7_0, Ver_4_1_2, Ver_4_0_1, Ver_3_2_1, Ver_5_5_5_10, Ver_5_7 }

Salt1A == << 11, 12, 13, 14, 15, 16, 17, 18, 0 >>
Salt1B == << 1, 0, 1, 1, 1, 1, 1, 1, 9 >>
Salt2A == << 21, 22, 23, 24, 25, 26, 27, 28, 29, 30, 31, 32, 0 >>
Reserved0 == << 0, 0, 0, 0, 0, 0, 1, 2, 3, 4 >>
Reserved5 == << 5, 0, 0, 0, 0, 0, 0, 0, 0, 0 >>

LittleEndian3(n) == << n % 256, (n \div 256) % 256, (n \div 65536) % 256 >>

HasSecondSalt(ver) == ~ is_ver_less_41_of(ver[1], ver[3])

\* the plugin name that follows a plugin length plen: plen bytes and a NUL
RECURSIVE PluginName(_)
PluginName(plen) == IF plen = 0 THEN << 0 >> ELSE << 97 >> \o PluginName(plen - 1)

MysqlGreeting(f) ==
    LET body == << 10 >> \o f.ver \o f.tid \o f.salt1 \o f.cap \o << f.coll >>
                \o f.status \o << 8, 0 >> \o << f.plen >> \o f.reserved
                \o (IF HasSecondSalt(f.ver) THEN f.salt2 ELSE << >>)
                \o (IF f.plen > 0 THEN PluginName(f.plen) ELSE << >>)
    IN LittleEndian3(Len(body)) \o << 0 >> \o body

MaxPluginLen == 2

\* greetings of every version, with and without capability bit 0 and plugin
TruncationFamily ==
    { MysqlGreeting([ver |-> v, tid |-> <<1, 0, 0, 0>>, salt1 |-> Salt1A,
                     cap |-> <<c, 2>>, coll |-> 33, status |-> <<2, 0>>,
                     plen |-> pl, reserved |-> Reserved0, salt2 |-> Salt2A]) :
        v \in MysqlVersions, c \in {0, 1}, pl \in {0, MaxPluginLen} }

\* MySQL 5.7.0 greetings without plugin and with capability bit 0 set
Mysql57Family ==
    { MysqlGreeting([ver |-> Ver_5_7_0, tid |-> t, salt1 |-> s1,
                     cap |-> c, coll |-> co, status |-> st,
                     plen |-> 0, reserved |-> r, salt2 |-> s2]) :
        t \in { <<0, 0, 0, 0>>, <<1, 0, 0, 0>>, <<1, 1, 1, 1>> },
        s1 \in { Salt1A, Salt1B },
        c \in { <<1, 0>>, <<255, 255>> },
        co \in { 0, 33 },
        st \in { <<2, 0>>, <<0, 128>> },
        r \in { Reserved0, Reserved5 },
        s2 \in { Salt2A, SubSeq(Salt2A, 1, 12) \o << 7 >> } }

DeleteAt(seq, i) == SubSeq(seq, 1, i - 1) \o SubSeq(seq, i + 1, Len(seq))

\* the index in the packet of the NUL that ends the version string Ver_5_7_0
VersionNulIndex == 4 + 1 + Len(Ver_5_7_0)

MysqlPrefixes(b) ==
    { [bytes |-> SubSeq(b, 1, n), base |-> b,
       mangle |-> IF n = Len(b) THEN "none" ELSE "prefix"] : n \in 0..Len(b) }

MysqlInputsPrefix == UNION { MysqlPrefixes(b) : b \in TruncationFamily }

MysqlInputs57 ==
    { [bytes |-> b, base |-> b, mangle |-> "none"] : b \in Mysql57Family }
    \cup
    { [bytes |-> DeleteAt(b, VersionNulIndex), base |-> b,
       mangle |-> "del_version_nul"] : b \in Mysql57Family }

\* versions of 9 and of 10 bytes, terminator included
Ver_5_7_10_a  == << 53, 46, 55, 46, 49, 48, 45, 97, 0 >>
Ver_5_7_10_ab == << 53, 46, 55, 46, 49, 48, 45, 97, 98, 0 >>

\* greetings whose version string is as long as the MariaDB test allows, and
\* one byte longer
MysqlInputsVersionLength ==
    { [bytes |-> MysqlGreeting([ver |-> v, tid |-> <<1, 0, 0, 0>>, salt1 |-> Salt1A,
                     cap |-> <<c, 2>>, coll |-> 33, status |-> <<2, 0>>,
                     plen |-> pl, reserved |-> r, salt2 |-> Salt2A]),
       base |-> << >>, mangle |-> "version_length"] :
        v \in { Ver_5_7_10_a, Ver_5_7_10_ab }, c \in {0, 1},
        pl \in {0, MaxPluginLen}, r \in { Reserved0, Reserved5 } }

\* the greeting b with n in its length field
WithLengthField(b, n) == LittleEndian3(n) \o SubSeq(b, 4, Len(b))

\* greetings whose length field does not tell the number of bytes behind the
\* packet header
MysqlInputsLengthField ==
    { [bytes |-> WithLengthField(b, n), base |-> b, mangle |-> "length_field"] :
        b \in TruncationFamily, n \in {0, 1, 65536} }

MysqlInputsTail ==
    { [bytes |-> b \o << t >>, base |-> b, mangle |-> "tail"] :
        b \in TruncationFamily, t \in {0, 7} }

MaxWrites == 2

\* what a read outside a name table may yield
OobReads == { "", "garbage" }

MysqlIdle ==
    /\ mysql_in = [bytes |-> << >>, base |-> << >>, mangle |-> "none"]
    /\ mysql_pc = "idle"
    /\ mysql_rec = << >>
    /\ mysql_pkt = NullDatum
    /\ mysql_out = << >>
    /\ mysql_writes = 0

MysqlInit ==
    /\ mysql_in \in MysqlInputsPrefix \cup MysqlInputs57 \cup MysqlInputsTail
                    \cup MysqlInputsVersionLength \cup MysqlInputsLengthField
    /\ mysql_pc = "new"
    /\ mysql_rec = << >>
    /\ mysql_pkt = DatumOf(mysql_in.bytes)
    /\ mysql_out = << >>
    /\ mysql_writes = 0

\* mysql_server_greet greet{pkt}
MysqlConstruct ==
    /\ mysql_pc = "new"
    /\ \E ord \in EvalOrders, junk \in JunkFlags :
         LET r == mysql_server_greet(mysql_pkt, ord, junk) IN
         /\ mysql_rec' = r
         /\ mysql_pkt' = r.pkt
    /\ mysql_pc' = "constructed"
    /\ UNCHANGED <<mysql_in, mysql_out, mysql_writes>>
    /\ UNCHANGED NotMysql

\* greet.write_json(record, output_metadata)
MysqlWriteJson ==
    /\ mysql_pc = "constructed"
    /\ mysql_writes < MaxWrites
    /\ \E output_metadata \in BOOLEAN, oob \in OobReads :
         mysql_out' = mysql_out \o mysql_write_json(mysql_rec, output_metadata, oob)
    /\ mysql_writes' = mysql_writes + 1
    /\ UNCHANGED <<mysql_in, mysql_pc, mysql_rec, mysql_pkt>>
    /\ UNCHANGED NotMysql



(***************************************************************************)
(* tofsee.hpp: rotl<bits>(x) for T = uint8_t.  The shifts are done on int; *)
(* the conversion of the result to T keeps the low 8 bits.                 *)
(***************************************************************************)
RECURSIVE BitOr(_, _)
BitOr(a, b) ==
    IF a = 0 THEN b
    ELSE IF b = 0 THEN a
    ELSE (IF a % 2 = 1 \/ b % 2 = 1 THEN 1 ELSE 0) + 2 * BitOr(a \div 2, b \div 2)

\* rotl with the two shifts exchanged: a rotation to the right
rotl_to_the_right(bits, x) == BitOr(x \div Pow2N(bits), x * Pow2N(8 - bits)) % 256

rotl(bits, x) == BitOr(x * Pow2N(bits), x \div Pow2N(8 - bits)) % 256

\* tofsee_initial_message::decrypt(ciphertext, plaintext, data_len).  The
\* running state res is 198 before the first iteration and is set to
\* ciphertext[i] ^ 0xc6 at the end of iteration i, so iteration i reads
\* res_before(ciphertext, i).
res_before(ciphertext, i) ==
    IF i = 1 THEN 198 ELSE BitXor(ciphertext[i - 1], 198)

decrypt(ciphertext, data_len) ==
    [i \in 1..data_len |->
        BitXor(res_before(ciphertext, i), rotl(5, ciphertext[i])) % 256]

\* sizeof(buffer) of tofsee_initial_message::plaintext
plaintext_buffer_size == 200

\* plaintext::plaintext(datum &d): the plaintext cursor and the cursor d
plaintext(d) ==
    IF length(d) # plaintext_buffer_size
    THEN [pt |-> NullDatum, d |-> NullDatum]
    ELSE [pt |-> DatumOf(decrypt(d.bytes, plaintext_buffer_size)), d |-> d]

\* the member initialisers key{pt, 128}, unknown_1{pt, 16}, ipv4{pt, 4},
\* srv_time{pt, 4}, unknown_2{pt, 48}
TofseeMembers ==
    << [name |-> "key", size |-> 128], [name |-> "unknown_1", size |-> 16],
       [name |-> "ipv4", size |-> 4],  [name |-> "srv_time", size |-> 4],
       [name |-> "unknown_2", size |-> 48] >>

RECURSIVE TofseeSlice(_, _, _)
TofseeSlice(list, pt, acc) ==
    IF list = << >> THEN acc @@ ("pt" :> pt)
    ELSE TofseeSlice(Tail(list), datum_parse(pt, Head(list).size).r,
                     acc @@ (Head(list).name :> datum_parse(pt, Head(list).size).d))

\* tofsee_initial_message::tofsee_initial_message(datum &ct)
tofsee_initial_message(ct) == TofseeSlice(TofseeMembers, plaintext(ct).pt, << >>)

weight_threshold == 16

RECURSIVE PopCountSum(_)
PopCountSum(bytes) ==
    IF bytes = << >> THEN 0 ELSE PopCount(Head(bytes)) + PopCountSum(Tail(bytes))

\* is_not_empty() with a weight of exactly the threshold accepted
is_not_empty_threshold_included(msg) ==
    IF msg.unknown_2.null THEN FALSE
    ELSE PopCountSum(msg.unknown_1.bytes) <= weight_threshold

\* tofsee_initial_message::is_not_empty()
is_not_empty(msg) ==
    IF msg.unknown_2.null THEN FALSE
    ELSE IF PopCountSum(msg.unknown_1.bytes) < weight_threshold THEN TRUE
    ELSE FALSE

\* tofsee_initial_message::write_json(o): the calls made on the emitter
tofsee_write_json(msg) ==
    IF ~ is_not_empty(msg) THEN << >>
    ELSE << <<"json_object", "tofsee_initial_message">>,
            <<"print_key_hex", "key", msg.key>>,
            <<"print_key_hex", "unknown_1", msg.unknown_1>>,
            <<"print_key_ipv4_addr", "bot_ip", msg.ipv4>>,
            <<"print_key_hex", "srv_time", msg.srv_time>>,
            <<"print_key_hex", "unknown_2", msg.unknown_2>>,
            <<"close", "tofsee_initial_message">> >>

\* tim_ciphertext of unit_test()
tim_ciphertext ==
    <<
       255, 212, 51, 185, 105, 26, 121, 123,
       225, 155, 50, 165, 38, 208, 3, 35,
       162, 15, 38, 229, 129, 179, 13, 233,
       182, 212, 91, 166, 237, 78, 141, 226,
       21, 243, 103, 203, 164, 117, 216, 40,
       118, 155, 48, 241, 84, 2, 109, 46,
       253, 106, 51, 252, 148, 102, 6, 11,
       42, 169, 44, 100, 200, 105, 150, 136,
       244, 35, 231, 90, 253, 215, 164, 9,
       90, 227, 113, 183, 30, 101, 152, 186,
       188, 0, 173, 199, 192, 174, 226, 44,
       50, 87, 180, 208, 162, 7, 67, 188,
       13, 64, 215, 127, 233, 113, 183, 195,
       63, 165, 73, 216, 254, 22, 114, 192,
       155, 98, 220, 164, 60, 76, 45, 211,
       60, 110, 138, 196, 205, 69, 43, 219,
       224, 49, 191, 203, 96, 53, 159, 202,
       96, 52, 143, 74, 124, 213, 152, 242,
       139, 211, 128, 253, 251, 178, 171, 221,
       205, 143, 31, 36, 251, 109, 250, 249,
       102, 65, 75, 174, 177, 180, 103, 1,
       198, 203, 91, 46, 208, 15, 102, 238,
       127, 199, 111, 21, 251, 134, 13, 44,
       16, 234, 60, 251, 9, 130, 110, 61,
       158, 121, 198, 52, 85, 172, 19, 109
    >>

(***************************************************************************)
(* The Tofsee inputs of the model: the sample of the unit test, 200 bytes  *)
(* 0xff, and the ciphertexts of plaintexts whose unknown_1 field has a     *)
(* chosen value; each of them also one byte shorter and one byte longer,  *)
(* and the empty input.                                                    *)
(***************************************************************************)
Fill(n, b) == [i \in 1..n |-> b]

\* 16 bytes with w bits set, filled from the first byte on
RECURSIVE WeightPattern(_, _)
WeightPattern(n, w) ==
    IF n = 0 THEN << >>
    ELSE IF w >= 8 THEN << 255 >> \o WeightPattern(n - 1, w - 8)
    ELSE << Pow2N(w) - 1 >> \o WeightPattern(n - 1, 0)

\* the ciphertext bytes that decrypt to the bytes plain[i..], when the
\* ciphertext byte before them is prev
RECURSIVE EncryptFrom(_, _, _)
EncryptFrom(plain, i, prev) ==
    IF i > Len(plain) THEN << >>
    ELSE << rotl(3, BitXor(plain[i], BitXor(prev, 198))) >>
         \o EncryptFrom(plain, i + 1, rotl(3, BitXor(plain[i], BitXor(prev, 198))))

MaxWeight == 18

\* the values of the field unknown_1 that the inputs decrypt to
Unknown1Values ==
    { WeightPattern(16, w) : w \in 0..MaxWeight } \cup { Fill(16, 1), Fill(16, 128) }

\* ciphertexts of 200 bytes: constant outside the 16 bytes that decrypt to
\* the chosen value of unknown_1
TofseeCiphertextsByWeight ==
    { Fill(128, k) \o EncryptFrom(u, 1, k) \o Fill(56, t) :
        k \in {0, 255}, u \in Unknown1Values, t \in {0, 255} }

TofseeCiphertexts200 ==
    { tim_ciphertext, Fill(200, 255) } \cup TofseeCiphertextsByWeight

TofseeInputs ==
    TofseeCiphertexts200
    \cup { SubSeq(c, 1, 199) : c \in TofseeCiphertexts200 }
    \cup { c \o << 0 >> : c \in TofseeCiphertexts200 }
    \cup { << >> }

TofseeIdle ==
    /\ tofsee_in = << >>
    /\ tofsee_pc = "idle"
    /\ tofsee_msg = << >>
    /\ tofsee_ct = NullDatum
    /\ tofsee_out = << >>
    /\ tofsee_writes = 0
    /\ ut_pc = "idle"
    /\ ut_result = FALSE
    /\ ut_checks = {}

TofseeInit ==
    /\ tofsee_in \in TofseeInputs
    /\ tofsee_pc = "new"
    /\ tofsee_msg = << >>
    /\ tofsee_ct = DatumOf(tofsee_in)
    /\ tofsee_out = << >>
    /\ tofsee_writes = 0
    /\ ut_pc = "start"
    /\ ut_result = FALSE
    /\ ut_checks = {}

\* tofsee_initial_message tofsee{ct}
TofseeConstruct ==
    /\ tofsee_pc = "new"
    /\ tofsee_msg' = tofsee_initial_message(tofsee_ct)
    /\ tofsee_ct' = plaintext(tofsee_ct).d
    /\ tofsee_pc' = "constructed"
    /\ UNCHANGED <<tofsee_in, tofsee_out, tofsee_writes, ut_pc, ut_result, ut_checks>>
    /\ UNCHANGED NotTofsee

\* tofsee.write_json(o)
TofseeWriteJson ==
    /\ tofsee_pc = "constructed"
    /\ tofsee_writes < MaxWrites
    /\ tofsee_out' = tofsee_out \o tofsee_write_json(tofsee_msg)
    /\ tofsee_writes' = tofsee_writes + 1
    /\ UNCHANGED <<tofsee_in, tofsee_pc, tofsee_msg, tofsee_ct, ut_pc, ut_result, ut_checks>>
    /\ UNCHANGED NotTofsee

\* unit_test(): the true positive test, and the return that follows it.  The
\* statements behind that return (the false positive test) are never run.
TofseeUnitTest ==
    /\ ut_pc = "start"
    /\ ut_checks' = ut_checks \cup {"true_positive"}
    /\ ut_result' = IF ~ is_not_empty(tofsee_initial_message(DatumOf(tim_ciphertext)))
                    THEN FALSE
                    ELSE TRUE
    /\ ut_pc' = "done"
    /\ UNCHANGED <<tofsee_in, tofsee_pc, tofsee_msg, tofsee_ct, tofsee_out, tofsee_writes>>
    /\ UNCHANGED NotTofsee

(***************************************************************************)
(* http.h: http_headers::parse.  A cursor over http_buf is the pair of     *)
(* offsets [data, data_end]; the null pointer is the offset NULL.          *)
(***************************************************************************)
NULL == -1

\* parser_get_data_length(p)
parser_get_data_length(p) == IF p.data = NULL THEN 0 ELSE p.data_end - p.data

\* the bytes value[1..] are in buf at offset at
BytesAt(buf, at, value) ==
    /\ at + Len(value) <= Len(buf)
    /\ \A i \in 1..Len(value) : buf[at + i] = value[i]

\* parser_match(p, value, value_len, NULL): on a match the cursor moves
\* behind the bytes matched
parser_match(buf, p, value) ==
    IF p.data # NULL /\ p.data + Len(value) <= p.data_end /\ BytesAt(buf, p.data, value)
    THEN [status |-> "status_ok", p |-> [p EXCEPT !.data = p.data + Len(value)]]
    ELSE [status |-> "status_err", p |-> p]

\* the offsets of the occurrences of delim in the remaining bytes of p
DelimOffsets(buf, p, delim) ==
    IF p.data = NULL THEN {}
    ELSE { at \in p.data..(p.data_end - Len(delim)) : BytesAt(buf, at, delim) }

Min(S) == CHOOSE x \in S : \A y \in S : x <= y

\* parser_skip_upto_delim(p, delim, length): the cursor moves behind the first
\* occurrence of the delimiter; without an occurrence the cursor is nulled
parser_skip_upto_delim(buf, p, delim) ==
    IF DelimOffsets(buf, p, delim) = {}
    THEN [status |-> "status_err", p |-> [p EXCEPT !.data = NULL]]
    ELSE [status |-> "status_ok",
          p |-> [p EXCEPT !.data = Min(DelimOffsets(buf, p, delim)) + Len(delim)]]

crlf == << 13, 10 >>

\* one evaluation of the loop condition and body, without the break after
\* complete = true
parse_iteration_without_break(buf, p, hdr) ==
    IF ~ (parser_get_data_length(p) > 0)
    THEN [p |-> p, hdr |-> hdr, leave |-> TRUE]
    ELSE IF parser_match(buf, p, crlf).status = "status_ok"
    THEN [p |-> parser_match(buf, p, crlf).p,
          hdr |-> [hdr EXCEPT !.complete = TRUE], leave |-> FALSE]
    ELSE [p |-> parser_skip_upto_delim(buf, p, crlf).p, hdr |-> hdr,
          leave |-> parser_skip_upto_delim(buf, p, crlf).status = "status_err"]

\* one evaluation of the loop condition and body of http_headers::parse;
\* leave tells that the loop is left
parse_iteration(buf, p, hdr) ==
    IF ~ (parser_get_data_length(p) > 0)
    THEN [p |-> p, hdr |-> hdr, leave |-> TRUE]
    ELSE IF parser_match(buf, p, crlf).status = "status_ok"
    THEN [p |-> parser_match(buf, p, crlf).p,
          hdr |-> [hdr EXCEPT !.complete = TRUE], leave |-> TRUE]
    ELSE [p |-> parser_skip_upto_delim(buf, p, crlf).p, hdr |-> hdr,
          leave |-> parser_skip_upto_delim(buf, p, crlf).status = "status_err"]

(***************************************************************************)
(* The HTTP inputs of the model: every buffer of at most MaxHttpLen bytes  *)
(* over 'a', CR and LF, with the cursor at its first or second byte, or a  *)
(* null cursor.                                                            *)
(***************************************************************************)
MaxHttpLen == 6

HttpBytes == {97, 13, 10}

HttpBuffers == UNION { [1..n -> HttpBytes] : n \in 0..MaxHttpLen }

HttpStarts(buf) == {NULL} \cup { at \in {0, 1} : at <= Len(buf) }

HttpIdle ==
    /\ http_buf = << >>
    /\ http_start = NULL
    /\ http_p = [data |-> NULL, data_end |-> NULL]
    /\ http_hdr = [data |-> NULL, data_end |-> NULL, complete |-> FALSE]
    /\ http_pc = "idle"

\* http_headers() and a cursor p over the buffer
HttpInit ==
    /\ http_buf \in HttpBuffers
    /\ http_start \in HttpStarts(http_buf)
    /\ http_p = [data |-> http_start,
                 data_end |-> IF http_start = NULL THEN NULL ELSE Len(http_buf)]
    /\ http_hdr = [data |-> NULL, data_end |-> NULL, complete |-> FALSE]
    /\ http_pc = "start"

\* data = p.data;
HttpParseBegin ==
    /\ http_pc = "start"
    /\ http_hdr' = [http_hdr EXCEPT !.data = http_p.data]
    /\ http_pc' = "loop"
    /\ UNCHANGED <<http_buf, http_start, http_p>>
    /\ UNCHANGED NotHttp

\* while (parser_get_data_length(&p) > 0) { ... }
HttpParseLoop ==
    /\ http_pc = "loop"
    /\ http_p' = parse_iteration(http_buf, http_p, http_hdr).p
    /\ http_hdr' = parse_iteration(http_buf, http_p, http_hdr).hdr
    /\ http_pc' = IF parse_iteration(http_buf, http_p, http_hdr).leave
                  THEN "after_loop" ELSE "loop"
    /\ UNCHANGED <<http_buf, http_start>>
    /\ UNCHANGED NotHttp

\* data_end = p.data;
HttpParseEnd ==
    /\ http_pc = "after_loop"
    /\ http_hdr' = [http_hdr EXCEPT !.data_end = http_p.data]
    /\ http_pc' = "done"
    /\ UNCHANGED <<http_buf, http_start, http_p>>
    /\ UNCHANGED NotHttp

(***************************************************************************)
(* libmerc_api.h: the binding of the function pointers of libmerc_api to   *)
(* the symbols of the library at lib_path.  A library is the set of the    *)
(* symbol names that dlsym finds in it; the object holds the set of its    *)
(* members that are not nullptr.                                           *)
(***************************************************************************)
\* the assignments member = dlsym(dl_handle, symbol) of the v1 API
v1_dlsym ==
    << [member |-> "init",                       symbol |-> "mercury_init"],
       [member |-> "finalize",                   symbol |-> "mercury_finalize"],
       [member |-> "packet_processor_construct", symbol |-> "mercury_packet_processor_construct"],
       [member |-> "packet_processor_destruct",  symbol |-> "mercury_packet_processor_destruct"],
       [member |-> "get_analysis_context",       symbol |-> "mercury_packet_processor_get_analysis_context"],
       [member |-> "get_fingerprint_type",       symbol |-> "analysis_context_get_fingerprint_type"],
       [member |-> "get_fingerprint_status",     symbol |-> "analysis_context_get_fingerprint_status"],
       [member |-> "get_fingerprint_string",     symbol |-> "analysis_context_get_fingerprint_string"],
       [member |-> "get_server_name",            symbol |-> "analysis_context_get_server_name"],
       [member |-> "get_process_info",           symbol |-> "analysis_context_get_process_info"],
       [member |-> "get_malware_info",           symbol |-> "analysis_context_get_malware_info"],
       [member |-> "write_stats_data",           symbol |-> "mercury_write_stats_data"] >>

\* the assignment of the v2 API
v2_dlsym ==
    << [member |-> "register_printf_err", symbol |-> "register_printf_err_callback"] >>

\* the assignments of the v3 API
v3_dlsym ==
    << [member |-> "get_analysis_context_linktype",
        symbol |-> "mercury_packet_processor_get_analysis_context_linktype"],
       [member |-> "get_alpns",      symbol |-> "analysis_context_get_alpns"],
       [member |-> "get_user_agent", symbol |-> "analysis_context_get_user_agent"] >>

\* the members tested by "verify that all v1 function symbols were found"
v1_checked ==
    { "init", "finalize", "packet_processor_construct", "packet_processor_destruct",
      "get_analysis_context", "get_fingerprint_type", "get_fingerprint_status",
      "get_fingerprint_string", "get_process_info", "get_malware_info",
      "write_stats_data" }

\* the members tested by "check to see if all v2 function symbols were found"
v2_checked == { "register_printf_err" }

\* the members tested by "verify that all v3 function symbols were found"
v3_checked == { "get_analysis_context_linktype", "get_user_agent", "get_alpns" }

\* the members that a list of dlsym assignments leaves non-null
Resolved(assignments, symbols) ==
    { assignments[i].member :
        i \in { j \in 1..Len(assignments) : assignments[j].symbol \in symbols } }

\* the object as the member initialisers leave it
libmerc_api_members == [libmerc_version |-> 0, dl_handle |-> FALSE, ptrs |-> {}]

\* bind from the v2 block on: obj has the v1 pointers and libmerc_version = 1
bind_v2_v3(obj, symbols) ==
    [ret |-> 0,
     obj |-> [obj EXCEPT
        !.ptrs = obj.ptrs \cup Resolved(v2_dlsym, symbols) \cup Resolved(v3_dlsym, symbols),
        !.libmerc_version =
            IF v3_checked \subseteq Resolved(v3_dlsym, symbols) THEN 3
            ELSE IF v2_checked \subseteq Resolved(v2_dlsym, symbols) THEN 2
            ELSE obj.libmerc_version]]

\* bind from the v1 block on, with the v2 member tested together with the
\* v1 members
bind_v1_requiring_v2(obj, symbols) ==
    IF ~ (v1_checked \subseteq Resolved(v1_dlsym, symbols)
          /\ v2_checked \subseteq Resolved(v2_dlsym, symbols))
    THEN [ret |-> -1, obj |-> [obj EXCEPT !.ptrs = Resolved(v1_dlsym, symbols)]]
    ELSE bind_v2_v3([obj EXCEPT !.ptrs = Resolved(v1_dlsym, symbols),
                                !.libmerc_version = 1], symbols)

\* bind from the v1 block on: the library is loaded
bind_v1(obj, symbols) ==
    IF ~ (v1_checked \subseteq Resolved(v1_dlsym, symbols))
    THEN [ret |-> -1, obj |-> [obj EXCEPT !.ptrs = Resolved(v1_dlsym, symbols)]]
    ELSE bind_v2_v3([obj EXCEPT !.ptrs = Resolved(v1_dlsym, symbols),
                                !.libmerc_version = 1], symbols)

\* libmerc_api::bind(lib_path)
bind(obj, lib) ==
    IF ~ lib.loads
    THEN [ret |-> -1, obj |-> [obj EXCEPT !.dl_handle = FALSE]]
    ELSE bind_v1([obj EXCEPT !.dl_handle = TRUE], lib.symbols)

\* the members that libmerc_printer::fprint_analysis_context calls
fprint_analysis_context_calls ==
    { "get_fingerprint_type", "get_fingerprint_string", "get_fingerprint_status",
      "get_server_name", "get_process_info", "get_malware_info" }

AllSymbols ==
    { v1_dlsym[i].symbol : i \in 1..Len(v1_dlsym) }
    \cup { v2_dlsym[i].symbol : i \in 1..Len(v2_dlsym) }
    \cup { v3_dlsym[i].symbol : i \in 1..Len(v3_dlsym) }

\* the libraries of the model: one that cannot be loaded, and the loadable
\* ones with every set of symbols present
Libraries ==
    { [loads |-> FALSE, symbols |-> {}] }
    \cup { [loads |-> TRUE, symbols |-> S] : S \in SUBSET AllSymbols }

ApiIdle ==
    /\ api_lib = [loads |-> FALSE, symbols |-> {}]
    /\ api_pc = "idle"
    /\ api_obj = libmerc_api_members
    /\ api_ret = 0
    /\ api_call = "none"
    /\ api_dl = << >>

ApiInit ==
    /\ api_lib \in Libraries
    /\ api_pc = "new"
    /\ api_obj = libmerc_api_members
    /\ api_ret = 0
    /\ api_call = "none"
    /\ api_dl = << >>

\* libmerc_api::libmerc_api(lib_path): bind calls dlopen once; when bind
\* does not return 0 the constructor throws, and the destructor of an object
\* whose constructor threw is never run
ApiConstruct ==
    /\ api_pc = "new"
    /\ api_obj' = bind(api_obj, api_lib).obj
    /\ api_ret' = bind(api_obj, api_lib).ret
    /\ api_pc' = IF bind(api_obj, api_lib).ret # 0 THEN "threw" ELSE "constructed"
    /\ api_dl' = IF api_lib.loads THEN Append(api_dl, "dlopen") ELSE api_dl
    /\ UNCHANGED <<api_lib, api_call>>
    /\ UNCHANGED NotApi

\* mercury_unbind(libmerc_api): dlclose(dl_handle); dl_handle = nullptr
mercury_unbind(obj) ==
    [obj  |-> [obj EXCEPT !.dl_handle = FALSE],
     call |-> IF obj.dl_handle THEN "dlclose" ELSE "dlclose_null"]

\* libmerc_api::~libmerc_api(), run when a constructed object goes out of
\* scope
ApiDestruct ==
    /\ api_pc = "constructed"
    /\ api_obj' = mercury_unbind(api_obj).obj
    /\ api_dl' = Append(api_dl, mercury_unbind(api_obj).call)
    /\ api_pc' = "destroyed"
    /\ UNCHANGED <<api_lib, api_ret, api_call>>
    /\ UNCHANGED NotApi

\* libmerc_printer::fprint_analysis_context(f, ctx): it calls through six
\* members; a call through a member that is nullptr is undefined
ApiFprintAnalysisContext ==
    /\ api_pc = "constructed"
    /\ api_call = "none"
    /\ api_call' = IF fprint_analysis_context_calls \subseteq api_obj.ptrs
                   THEN "returned" ELSE "null_function_pointer_called"
    /\ UNCHANGED <<api_lib, api_pc, api_obj, api_ret, api_dl>>
    /\ UNCHANGED NotApi


(***************************************************************************)
(* tofsee.hpp: the loop of decrypt, one iteration at a time.  c_off is the *)
(* number of bytes the pointer ciphertext has moved; plaintext holds the   *)
(* bytes written through the pointer plaintext.                            *)
(***************************************************************************)
\* uint8_t res = 198; size_t i = 0
decrypt_locals == [i |-> 0, res |-> 198, c_off |-> 0, plaintext |-> << >>]

\* the loop body with i advanced by two
decrypt_iteration_skipping(cipher, st) ==
    [i         |-> st.i + 2,
     res       |-> BitXor(cipher[st.c_off + 1], 198),
     c_off     |-> st.c_off + 1,
     plaintext |-> Append(st.plaintext,
                          BitXor(st.res, rotl(5, cipher[st.c_off + 1])) % 256)]

\* uint8_t c = *ciphertext++; *plaintext++ = res ^ rotl<5>(c); res = c ^ 0xc6; i++
decrypt_iteration(cipher, st) ==
    [i         |-> st.i + 1,
     res       |-> BitXor(cipher[st.c_off + 1], 198),
     c_off     |-> st.c_off + 1,
     plaintext |-> Append(st.plaintext,
                          BitXor(st.res, rotl(5, cipher[st.c_off + 1])) % 256)]

MaxDecryptLen == 3

DecryptBytes == {0, 1, 7, 128, 198, 255}

DecryptInputs == UNION { [1..n -> DecryptBytes] : n \in 0..MaxDecryptLen }

DecIdle ==
    /\ dec_in = << >>
    /\ dec_cipher = << >>
    /\ dec_len = 0
    /\ dec_st = decrypt_locals
    /\ dec_pc = "idle"

\* decrypt is called with the length of the ciphertext as data_len
DecInit ==
    /\ dec_in \in DecryptInputs
    /\ dec_cipher = dec_in
    /\ dec_len = Len(dec_in)
    /\ dec_st = decrypt_locals
    /\ dec_pc = "call"

\* the entry of decrypt: the initialisation of res and i
DecryptEnter ==
    /\ dec_pc = "call"
    /\ dec_st' = decrypt_locals
    /\ dec_pc' = "loop"
    /\ UNCHANGED <<dec_in, dec_cipher, dec_len>>
    /\ UNCHANGED NotDec

\* for (...; i<data_len; i++) { ... }
DecryptLoop ==
    /\ dec_pc = "loop"
    /\ IF dec_st.i < dec_len
       THEN /\ dec_st' = decrypt_iteration(dec_cipher, dec_st)
            /\ dec_pc' = "loop"
       ELSE /\ dec_st' = dec_st
            /\ dec_pc' = "done"
    /\ UNCHANGED <<dec_in, dec_cipher, dec_len>>
    /\ UNCHANGED NotDec

(***************************************************************************)
(* libmerc_util.cc: main.  The calls it makes on the loader and on the     *)
(* library are recorded in main_log.  The object mercury is a local of the *)
(* try block: it is destroyed, and the library closed, when the block is   *)
(* left by its end, by return, or by an exception thrown after mercury was *)
(* constructed.                                                            *)
(***************************************************************************)
MaxPackets == 2

\* the libraries main is run with: one that cannot be loaded, one without
\* the symbols of the API, one with all of them
MainLibraries ==
    { [loads |-> FALSE, symbols |-> {}],
      [loads |-> TRUE,  symbols |-> {}],
      [loads |-> TRUE,  symbols |-> AllSymbols] }

\* args: what the command line is like; init_null, construct_null: the
\* library returns a null context, a null packet processor; pcap_opens: the
\* constructor of pcap_file returns; packets: the packets in the file;
\* throws_at: the call of get_next that throws (0: none)
MainEnvs ==
    { [args |-> "ok", lib |-> l, init_null |-> n, construct_null |-> c,
       pcap_opens |-> o, packets |-> k, throws_at |-> t] :
        l \in MainLibraries, n \in BOOLEAN, c \in BOOLEAN, o \in BOOLEAN,
        k \in 0..MaxPackets, t \in 0..(MaxPackets + 1) }
    \cup
    { [args |-> x, lib |-> [loads |-> FALSE, symbols |-> {}],
       init_null |-> FALSE, construct_null |-> FALSE, pcap_opens |-> FALSE,
       packets |-> 0, throws_at |-> 0] :
        x \in {"bad_argv", "help", "no_read", "no_libmerc"} }

MainIdle ==
    /\ main_env = [args |-> "none", lib |-> [loads |-> FALSE, symbols |-> {}],
                   init_null |-> FALSE, construct_null |-> FALSE,
                   pcap_opens |-> FALSE, packets |-> 0, throws_at |-> 0]
    /\ main_pc = "idle"
    /\ main_i = 0
    /\ main_log = << >>
    /\ main_ret = "none"

MainInit ==
    /\ main_env \in MainEnvs
    /\ main_env.throws_at <= main_env.packets + 1
    /\ main_pc = "start"
    /\ main_i = 0
    /\ main_log = << >>
    /\ main_ret = "none"

\* the object mercury as its constructor leaves it
main_mercury == bind(libmerc_api_members, main_env.lib)

\* the destructor of mercury
main_destroy_mercury(log) == Append(log, mercury_unbind(main_mercury.obj).call)

\* the processing of the command line, up to the try block
MainOptions ==
    /\ main_pc = "start"
    /\ main_pc' = IF main_env.args = "ok" THEN "try" ELSE "returned"
    /\ main_ret' = CASE main_env.args = "ok"   -> main_ret
                     [] main_env.args = "help" -> "EXIT_SUCCESS"
                     [] OTHER                  -> "EXIT_FAILURE"
    /\ UNCHANGED <<main_env, main_i, main_log>>
    /\ UNCHANGED NotMain

\* libmerc_printer mercury(libmerc_file.c_str()): the constructor throws
\* when bind fails, and mercury is then not an object of the block
MainLoadLibrary ==
    /\ main_pc = "try"
    /\ main_log' = IF main_env.lib.loads THEN Append(main_log, "dlopen")
                   ELSE main_log
    /\ main_pc' = IF main_mercury.ret # 0 THEN "catch" ELSE "init"
    /\ UNCHANGED <<main_env, main_i, main_ret>>
    /\ UNCHANGED NotMain

\* mercury_context mc = mercury.init(&config, verbose); if (mc == nullptr) throw
MainMercuryInit ==
    /\ main_pc = "init"
    /\ IF main_env.init_null
       THEN /\ main_log' = main_destroy_mercury(Append(main_log, "mercury_init_null"))
            /\ main_pc' = "catch"
       ELSE /\ main_log' = Append(main_log, "mercury_init")
            /\ main_pc' = "construct"
    /\ UNCHANGED <<main_env, main_i, main_ret>>
    /\ UNCHANGED NotMain

\* mpp = mercury.packet_processor_construct(mc); if (mpp == NULL) return -1
MainPacketProcessorConstruct ==
    /\ main_pc = "construct"
    /\ IF main_env.construct_null
       THEN /\ main_log' = main_destroy_mercury(
                               Append(main_log, "packet_processor_construct_null"))
            /\ main_pc' = "returned"
            /\ main_ret' = "-1"
       ELSE /\ main_log' = Append(main_log, "packet_processor_construct")
            /\ main_pc' = "open"
            /\ main_ret' = main_ret
    /\ UNCHANGED <<main_env, main_i>>
    /\ UNCHANGED NotMain

\* struct pcap_file pcap(pcap_file.c_str(), io_direction_reader)
MainOpenPcap ==
    /\ main_pc = "open"
    /\ IF main_env.pcap_opens
       THEN /\ main_log' = main_log
            /\ main_pc' = "loop"
       ELSE /\ main_log' = main_destroy_mercury(main_log)
            /\ main_pc' = "catch"
    /\ UNCHANGED <<main_env, main_i, main_ret>>
    /\ UNCHANGED NotMain

\* one iteration of while (true): get_next, the test of the packet, the
\* analysis and the printing of its result, i++
MainNextPacket ==
    /\ main_pc = "loop"
    /\ \/ /\ main_env.throws_at = main_i + 1
          /\ main_log' = main_destroy_mercury(main_log)
          /\ main_pc' = "catch"
          /\ main_i' = main_i
       \/ /\ main_env.throws_at # main_i + 1
          /\ main_i >= main_env.packets
          /\ main_log' = main_log
          /\ main_pc' = "destruct"
          /\ main_i' = main_i
       \/ /\ main_env.throws_at # main_i + 1
          /\ main_i < main_env.packets
          /\ \E ctx \in BOOLEAN :
               main_log' = IF ctx
                           THEN main_log \o << "get_analysis_context",
                                               "fprint_json_analysis_context" >>
                           ELSE Append(main_log, "get_analysis_context")
          /\ main_pc' = "loop"
          /\ main_i' = main_i + 1
    /\ UNCHANGED <<main_env, main_ret>>
    /\ UNCHANGED NotMain

\* mercury.packet_processor_destruct(mpp)
MainPacketProcessorDestruct ==
    /\ main_pc = "destruct"
    /\ main_log' = Append(main_log, "packet_processor_destruct")
    /\ main_pc' = "finalize"
    /\ UNCHANGED <<main_env, main_i, main_ret>>
    /\ UNCHANGED NotMain

\* mercury.finalize(mc)
MainFinalize ==
    /\ main_pc = "finalize"
    /\ main_log' = Append(main_log, "mercury_finalize")
    /\ main_pc' = "end_try"
    /\ UNCHANGED <<main_env, main_i, main_ret>>
    /\ UNCHANGED NotMain

\* the end of the try block, and return 0
MainLeaveTry ==
    /\ main_pc = "end_try"
    /\ main_log' = main_destroy_mercury(main_log)
    /\ main_pc' = "returned"
    /\ main_ret' = "0"
    /\ UNCHANGED <<main_env, main_i>>
    /\ UNCHANGED NotMain

\* catch (std::exception &e) and catch (...): exit(EXIT_FAILURE)
MainCatch ==
    /\ main_pc = "catch"
    /\ main_pc' = "exited"
    /\ main_ret' = "EXIT_FAILURE"
    /\ UNCHANGED <<main_env, main_i, main_log>>
    /\ UNCHANGED NotMain

SpecMainInit ==
    MainInit /\ UdpIdle /\ MysqlIdle /\ TofseeIdle /\ HttpIdle /\ ApiIdle /\ DecIdle

SpecMainNext ==
    \/ MainOptions
    \/ MainLoadLibrary
    \/ MainMercuryInit
    \/ MainPacketProcessorConstruct
    \/ MainOpenPcap
    \/ MainNextPacket
    \/ MainPacketProcessorDestruct
    \/ MainFinalize
    \/ MainLeaveTry
    \/ MainCatch

SpecMain == SpecMainInit /\ [][SpecMainNext]_vars

SpecDecryptInit ==
    DecInit /\ UdpIdle /\ MysqlIdle /\ TofseeIdle /\ HttpIdle /\ ApiIdle
        /\ MainIdle

SpecDecryptNext == DecryptEnter \/ DecryptLoop

SpecDecrypt == SpecDecryptInit /\ [][SpecDecryptNext]_vars

SpecApiInit == ApiInit /\ UdpIdle /\ MysqlIdle /\ TofseeIdle /\ HttpIdle /\ DecIdle
        /\ MainIdle

SpecApiNext == ApiConstruct \/ ApiFprintAnalysisContext \/ ApiDestruct

SpecApi == SpecApiInit /\ [][SpecApiNext]_vars

SpecHttpInit == HttpInit /\ UdpIdle /\ MysqlIdle /\ TofseeIdle /\ ApiIdle /\ DecIdle
        /\ MainIdle

SpecHttpNext == HttpParseBegin \/ HttpParseLoop \/ HttpParseEnd

SpecHttp == SpecHttpInit /\ [][SpecHttpNext]_vars


SpecMysqlInit == MysqlInit /\ UdpIdle /\ TofseeIdle /\ HttpIdle /\ ApiIdle /\ DecIdle
        /\ MainIdle

SpecMysqlNext == MysqlConstruct \/ MysqlWriteJson

SpecMysql == SpecMysqlInit /\ [][SpecMysqlNext]_vars

SpecUdpInit == UdpInit /\ MysqlIdle /\ TofseeIdle /\ HttpIdle /\ ApiIdle /\ DecIdle
        /\ MainIdle

SpecUdpNext == UdpClassify

SpecUdp == SpecUdpInit /\ [][SpecUdpNext]_vars

SpecTofseeInit == TofseeInit /\ UdpIdle /\ MysqlIdle /\ HttpIdle /\ ApiIdle /\ DecIdle
        /\ MainIdle

SpecTofseeNext == TofseeConstruct \/ TofseeWriteJson \/ TofseeUnitTest

SpecTofsee == SpecTofseeInit /\ [][SpecTofseeNext]_vars

\* the two loops of the parsers, each run to its end: the code is sequential,
\* so a loop that can take a step takes it
SpecParsingInit ==
    /\ UdpIdle
    /\ MainIdle
    /\ MysqlIdle
    /\ TofseeIdle
    /\ ApiIdle
    /\ \/ HttpInit /\ DecIdle
       \/ DecInit /\ HttpIdle

SpecParsingNext == SpecHttpNext \/ SpecDecryptNext

SpecParsing ==
    SpecParsingInit /\ [][SpecParsingNext]_vars /\ WF_vars(SpecParsingNext)

SpecEmitInit ==
    /\ UdpIdle
    /\ MainIdle
    /\ HttpIdle
    /\ ApiIdle
    /\ DecIdle
    /\ \/ MysqlInit /\ TofseeIdle
       \/ TofseeInit /\ MysqlIdle

SpecEmitNext == SpecMysqlNext \/ SpecTofseeNext

SpecEmit == SpecEmitInit /\ [][SpecEmitNext]_vars

(***************************************************************************)
(* Claims about mysql_server_greet                                         *)
(***************************************************************************)
\* whether the constructor accepts a packet (the order of evaluation and the
\* uninitialised flags have no part in valid)
ParsesValid(bytes) ==
    mysql_server_greet(DatumOf(bytes), <<0, 8, 16>>,
                       [if_auth_plugin |-> FALSE, is_ver_less_41 |-> FALSE,
                        is_mariadb |-> FALSE, partial_salt |-> FALSE]).valid

MysqlConstructed == mysql_pc = "constructed"

\* C2: when some read or skip of the construction finds fewer bytes in the
\* cursor than the field requires, the record is invalid; and every strict
\* prefix of a packet that parses valid parses invalid.
C2_TruncationInvalidates ==
    MysqlConstructed =>
        /\ mysql_rec.truncated => ~ mysql_rec.valid
        /\ (mysql_in.mangle = "prefix" /\ ParsesValid(mysql_in.base))
               => ~ mysql_rec.valid

\* C4: a valid record has consumed the whole packet, and a byte left behind
\* the last field of a greeting makes the record invalid.
C4_ValidImpliesCursorEmpty ==
    MysqlConstructed =>
        /\ mysql_rec.valid => length(mysql_pkt) = 0
        /\ mysql_in.mangle = "tail" => ~ mysql_rec.valid

\* C4 witness: every field of a greeting parsed, one byte was left in the
\* cursor, and the record is invalid.
C4_Witness ==
    /\ MysqlConstructed
    /\ mysql_in.mangle = "tail"
    /\ ParsesValid(mysql_in.base)
    /\ ~ mysql_rec.truncated
    /\ length(mysql_pkt) = 1
    /\ ~ mysql_rec.valid

\* the well-formed MySQL 5.x greetings of the rejection and round-trip tests:
\* version "5.7.0" and NUL, no auth plugin, capability bit 0 set, a 13-byte
\* second salt that ends in NUL
WellFormed57(bytes) ==
    /\ bytes \in Mysql57Family
    /\ bytes[Len(bytes)] = 0

\* C5: a well-formed MySQL 5.x greeting that parses valid parses invalid once
\* the NUL that ends its version string is deleted, whatever the bytes that
\* follow the version string.
C5_VersionNulRemovedInvalid ==
    (/\ MysqlConstructed
     /\ mysql_in.mangle = "del_version_nul"
     /\ WellFormed57(mysql_in.base)
     /\ ParsesValid(mysql_in.base))
        => ~ mysql_rec.valid

\* C5 witness: the NUL was deleted, the version string ran on to a NUL of
\* the thread id and passed its check, and the record is invalid.
C5_Witness ==
    /\ MysqlConstructed
    /\ mysql_in.mangle = "del_version_nul"
    /\ WellFormed57(mysql_in.base)
    /\ ParsesValid(mysql_in.base)
    /\ version_ok(mysql_rec.version)
    /\ ~ mysql_rec.valid

\* the values of the salt that the write_json calls so far have emitted
SaltCalls ==
    { i \in DOMAIN mysql_out :
        mysql_out[i][1] = "print_key_json_string" /\ mysql_out[i][2] = "salt" }

\* the bytes of d without the last one
WithoutLast(d) ==
    IF length(d) = 0 THEN d ELSE DatumOf(SubSeq(d.bytes, 1, Len(d.bytes) - 1))

\* C6: a well-formed MySQL 5.x greeting parses valid and not MariaDB, and
\* write_json emits as salt bytes 16..23 of the packet (salt_1 without its
\* terminator) followed by bytes 43..54 (salt_2 without its terminator); a
\* valid record without second fragment emits salt_1 without its last byte.
C6_RoundTrip ==
    /\ (MysqlConstructed /\ mysql_in.mangle = "none" /\ WellFormed57(mysql_in.bytes))
          => /\ mysql_rec.valid
             /\ ~ mysql_rec.is_mariadb
             /\ mysql_writes > 0 => SaltCalls # {}
             /\ \A i \in SaltCalls :
                    mysql_out[i][3] = DatumOf(SubSeq(mysql_in.bytes, 16, 23)
                                              \o SubSeq(mysql_in.bytes, 43, 54))
    /\ (MysqlConstructed /\ mysql_rec.valid /\ ~ mysql_rec.partial_salt)
          => /\ mysql_writes > 0 => SaltCalls # {}
             /\ \A i \in SaltCalls : mysql_out[i][3] = WithoutLast(mysql_rec.salt_1)

\* C6 witness: a well-formed greeting was parsed and serialised.
C6_Witness ==
    /\ MysqlConstructed
    /\ mysql_in.mangle = "none"
    /\ WellFormed57(mysql_in.bytes)
    /\ mysql_writes > 0
    /\ \E i \in SaltCalls : Len(mysql_out[i][3].bytes) = 20

(***************************************************************************)
(* Claims about udp_get_message_type                                       *)
(***************************************************************************)
\* the rules in the stated priority order, each with the tag it yields
UdpRules ==
    << [mask |-> dhcp_client_mask,       value |-> dhcp_client_value,
        tag |-> "udp_msg_type_dhcp"],
       [mask |-> dtls_client_hello_mask, value |-> dtls_client_hello_value,
        tag |-> "udp_msg_type_dtls_client_hello"],
       [mask |-> dtls_server_hello_mask, value |-> dtls_server_hello_value,
        tag |-> "udp_msg_type_dtls_server_hello"],
       [mask |-> dns_server_mask,        value |-> dns_server_value,
        tag |-> "udp_msg_type_dns"],
       [mask |-> dns_client_mask,        value |-> dns_client_value,
        tag |-> "udp_msg_type_dns"],
       [mask |-> wireguard_mask,         value |-> wireguard_value,
        tag |-> "udp_msg_type_wireguard"],
       [mask |-> quic_mask,              value |-> quic_value,
        tag |-> "udp_msg_type_quic"] >>

\* a payload satisfies a rule of width L iff it has L bytes and every masked
\* byte equals the value byte
RuleSatisfied(r, payload) ==
    /\ Len(payload) >= Len(r.mask)
    /\ \A i \in 1..Len(r.mask) : BitAnd(payload[i], r.mask[i]) = r.value[i]

SatisfiedRules(payload) ==
    { k \in 1..Len(UdpRules) : RuleSatisfied(UdpRules[k], payload) }

FirstMatchTag(payload) ==
    LET M == SatisfiedRules(payload) IN
    IF M = {} THEN "udp_msg_type_unknown"
    ELSE UdpRules[CHOOSE k \in M : \A j \in M : k <= j].tag

UdpPayload == SubSeq(udp_data, 1, udp_len)

\* C1: for a payload of at least 16 bytes the result is the tag of the first
\* rule, in the order DHCP, DTLS client hello, DTLS server hello, DNS server,
\* DNS client, WireGuard, QUIC, that the payload satisfies, and unknown when
\* it satisfies none.
C1_FirstMatchInPriorityOrder ==
    (udp_pc = "done" /\ udp_len >= 16) => udp_ret = FirstMatchTag(UdpPayload)

\* C1 witness: a payload of 16 bytes or more that failed the six earlier
\* rules and was classified by the last one.
C1_Witness ==
    /\ udp_pc = "done"
    /\ udp_len >= 16
    /\ SatisfiedRules(UdpPayload) = {7}
    /\ udp_ret = "udp_msg_type_quic"

\* C3: a rule of width L is applied only to a payload of at least L bytes, so
\* no byte at index >= len influences the result: a payload of 8..15 bytes is
\* classified by the rules it is long enough for, never as a DTLS hello.
C3_ShorterCandidatesNeverMatch ==
    (udp_pc = "done" /\ udp_len >= 8 /\ udp_len < 16)
        => /\ udp_ret = FirstMatchTag(UdpPayload)
           /\ udp_ret \notin { "udp_msg_type_dtls_client_hello",
                                "udp_msg_type_dtls_server_hello" }


(***************************************************************************)
(* Claims about the Tofsee initial message                                 *)
(***************************************************************************)
\* the population count of the 16 bytes at plaintext offsets 128..143 of a
\* 200-byte input
Unknown1Weight(bytes) ==
    PopCountSum([i \in 1..16 |-> decrypt(bytes, plaintext_buffer_size)[128 + i]])

TofseeConstructed == tofsee_pc = "constructed"

\* C7: is_not_empty() returns true if and only if the input cursor held
\* exactly 200 bytes and the population count of the 16 decrypted bytes at
\* plaintext offsets 128..143 is strictly less than 16; an input of any other
\* length is rejected whatever its bytes are.
C7_AcceptedIffLength200AndLowWeight ==
    TofseeConstructed =>
        (is_not_empty(tofsee_msg)
            <=> (Len(tofsee_in) = 200 /\ Unknown1Weight(tofsee_in) < 16))

\* a 200-byte input of weight 15 has been constructed and is accepted
C7_Witness ==
    /\ TofseeConstructed
    /\ Len(tofsee_in) = 200
    /\ Unknown1Weight(tofsee_in) = 15
    /\ is_not_empty(tofsee_msg)

\* C8: unit_test() returns true only if both of its checks have passed: the
\* sample ciphertext is accepted and 200 bytes 0xff are rejected.
C8_UnitTestPassesOnlyAfterBothChecks ==
    (ut_pc = "done" /\ ut_result) =>
        /\ "true_positive" \in ut_checks
        /\ is_not_empty(tofsee_initial_message(DatumOf(tim_ciphertext)))
        /\ "false_positive" \in ut_checks
        /\ ~ is_not_empty(tofsee_initial_message(DatumOf(Fill(200, 255))))

(***************************************************************************)
(* Claims about http_headers::parse                                        *)
(***************************************************************************)
\* the offsets at which a line starts: the initial cursor position and the
\* offset behind every CRLF at or behind it
LineStarts(buf, start) ==
    {start} \cup { at + 2 : at \in { o \in start..(Len(buf) - 2) : BytesAt(buf, o, crlf) } }

\* the offsets of the bare CRLFs at the start of a line
BlankLines(buf, start) ==
    IF start = NULL THEN {}
    ELSE { at \in LineStarts(buf, start) : BytesAt(buf, at, crlf) }

\* the bytes are a header block that ends in CRLF CRLF: the first blank line
\* is the end of the bytes
EndsInBlankLine(buf, start) ==
    /\ BlankLines(buf, start) # {}
    /\ Min(BlankLines(buf, start)) + 2 = Len(buf)
    /\ Len(buf) - start >= 4

HttpParsed == http_pc = "done"

MysqlWriteStep == mysql_writes' = mysql_writes + 1

\* a step is a call of tofsee_initial_message::write_json
TofseeWriteStep == tofsee_writes' = tofsee_writes + 1

\* C10: serialising an invalid or rejected record makes no call on the
\* emitter, not even the one that opens a nested object, and changes no
\* state, each time it is called: mysql_server_greet::write_json when valid
\* is false, tofsee_initial_message::write_json when is_not_empty() is false.
C10_InvalidWriteIsNoOp ==
    [][ /\ (MysqlWriteStep /\ ~ mysql_rec.valid)
            => /\ mysql_out' = mysql_out
               /\ mysql_out = << >>
               /\ UNCHANGED <<mysql_rec, mysql_pkt, mysql_pc, mysql_in>>
        /\ (TofseeWriteStep /\ ~ is_not_empty(tofsee_msg))
            => /\ tofsee_out' = tofsee_out
               /\ tofsee_out = << >>
               /\ UNCHANGED <<tofsee_msg, tofsee_ct, tofsee_pc, tofsee_in>> ]_vars

\* an invalid MySQL record has been serialised at least twice
C10_Witness ==
    /\ mysql_pc = "constructed"
    /\ ~ mysql_rec.valid
    /\ mysql_writes >= 2
    /\ mysql_out = << >>

\* C11: for every payload shorter than the shortest rule (8 bytes) the result
\* is unknown, whatever the bytes at udp_data are and whichever rules they
\* would satisfy.
C11_ShortPayloadIsUnknown ==
    (udp_pc = "done" /\ udp_len < 8) => udp_ret = "udp_msg_type_unknown"

\* a payload of 7 bytes has been classified as unknown although the 16 bytes
\* at udp_data satisfy a rule
C11_Witness ==
    /\ udp_pc = "done"
    /\ udp_len = 7
    /\ SatisfiedRules(udp_data) # {}
    /\ udp_ret = "udp_msg_type_unknown"

(***************************************************************************)
(* Claims about libmerc_api::bind                                          *)
(***************************************************************************)
\* the members that belong to a tier of the API
TierMembers(k) ==
    CASE k = 1 -> { v1_dlsym[i].member : i \in 1..Len(v1_dlsym) }
      [] k = 2 -> { v2_dlsym[i].member : i \in 1..Len(v2_dlsym) }
      [] k = 3 -> { v3_dlsym[i].member : i \in 1..Len(v3_dlsym) }

\* C12: after a successful bind, libmerc_version = k implies that every
\* function pointer of the tiers 1..k is non-null (v1 with get_server_name,
\* v2 register_printf_err, v3 get_analysis_context_linktype, get_alpns and
\* get_user_agent), whichever symbols the library has.
C12_VersionImpliesTiersResolved ==
    (api_pc = "constructed" /\ api_ret = 0) =>
        \A k \in 1..api_obj.libmerc_version : TierMembers(k) \subseteq api_obj.ptrs

\* C13: missing v2 or v3 symbols never make binding fail: when the library
\* loads and every checked v1 symbol resolves, bind returns 0, the constructor
\* does not throw and libmerc_version is 1, 2 or 3; bind returns an error and
\* the constructor throws only when the library cannot be loaded or a checked
\* v1 symbol is missing.
C13_OnlyLoadOrV1FailuresFail ==
    api_pc \in {"constructed", "threw"} =>
        /\ (api_lib.loads /\ v1_checked \subseteq Resolved(v1_dlsym, api_lib.symbols))
              => /\ api_ret = 0
                 /\ api_pc = "constructed"
                 /\ api_obj.libmerc_version \in {1, 2, 3}
        /\ (api_ret # 0 \/ api_pc = "threw")
              => /\ api_ret = -1
                 /\ api_pc = "threw"
                 /\ \/ ~ api_lib.loads
                    \/ ~ (v1_checked \subseteq Resolved(v1_dlsym, api_lib.symbols))

\* a library with the checked v1 symbols and no v2 or v3 symbol has been bound
C13_Witness ==
    /\ api_pc = "constructed"
    /\ api_lib.symbols \cap { "register_printf_err_callback",
           "mercury_packet_processor_get_analysis_context_linktype",
           "analysis_context_get_alpns", "analysis_context_get_user_agent" } = {}
    /\ api_ret = 0
    /\ api_obj.libmerc_version = 1

(***************************************************************************)
(* Claims about the layout of the MySQL greeting                           *)
(***************************************************************************)
\* the 3-byte little-endian length field at the start of a packet
DeclaredLength(bytes) == bytes[1] + 256 * bytes[2] + 65536 * bytes[3]

\* C14: a valid greeting exactly fills the declared packet: its length field
\* equals the number of bytes that follow the 4-byte packet header in the
\* buffer handed to the constructor.
C14_ValidFillsDeclaredPacket ==
    (MysqlConstructed /\ mysql_rec.valid) =>
        DeclaredLength(mysql_in.bytes) = Len(mysql_in.bytes) - 4

\* the indexes behind the protocol byte at which the packet has a NUL
VersionNuls(bytes) == { i \in 6..Len(bytes) : bytes[i] = 0 }

\* the version string is not NUL-terminated, or shorter than 6 bytes
ShortOrUnterminatedVersion(bytes) ==
    /\ Len(bytes) >= 5
    /\ \/ VersionNuls(bytes) = {}
       \/ Min(VersionNuls(bytes)) - 5 < 6

\* the bytes behind the version string, or from the version string on when it
\* has no terminator
BehindVersion(bytes) ==
    IF VersionNuls(bytes) = {} THEN Drop(bytes, 5)
    ELSE Drop(bytes, Min(VersionNuls(bytes)))

\* C15: if the version string is shorter than 6 bytes or not NUL-terminated,
\* the record is invalid and no field behind the version string (thread id,
\* salt_1, capabilities, collation, status, extended capabilities,
\* auth-plugin length, reserved bytes, salt_2, plugin name) is consumed from
\* the cursor.
C15_BadVersionConsumesNothingMore ==
    (MysqlConstructed /\ ShortOrUnterminatedVersion(mysql_in.bytes)) =>
        /\ ~ mysql_rec.valid
        /\ mysql_rec.stages = << >>
        /\ mysql_pkt = DatumOf(BehindVersion(mysql_in.bytes))

\* the constructor reached the reserved bytes
ReservedReached == MysqlConstructed /\ mysql_rec.stages # << >>

\* the cursor before and after the reserved bytes
ReservedStage == mysql_rec.stages[1]

\* C16: is_mariadb is true iff the version string is longer than 9 bytes or
\* bit 0 of the capability field is unset; when it is true, 6 reserved bytes
\* are skipped and the next 4 bytes are read as mariadb_ext_cap, otherwise 10
\* bytes are skipped and mariadb_ext_cap stays 0; either way exactly 10 bytes
\* of a sufficiently long packet are consumed.
C16_MariadbBranch ==
    ReservedReached =>
        /\ mysql_rec.is_mariadb
              <=> (Len(mysql_rec.version.bytes) > 9 \/ mysql_rec.cap % 2 = 0)
        /\ ReservedStage.stage = "reserved"
        /\ ~ mysql_rec.is_mariadb => mysql_rec.mariadb_ext_cap = 0
        /\ length(ReservedStage.before) >= 10 =>
              /\ ReservedStage.after = DatumOf(Drop(ReservedStage.before.bytes, 10))
              /\ mysql_rec.is_mariadb =>
                    mysql_rec.mariadb_ext_cap \in
                        { BigEndian(SubSeq(ReservedStage.before.bytes, 7, 10)),
                          LittleEndian(SubSeq(ReservedStage.before.bytes, 7, 10)) }

\* a greeting with capability bit 0 set and a version string of 10 bytes was
\* taken as MariaDB, and its extended capabilities were read
C16_Witness ==
    /\ ReservedReached
    /\ mysql_rec.valid
    /\ mysql_rec.version.bytes = Ver_5_7_10_ab
    /\ mysql_rec.cap % 2 = 1
    /\ mysql_rec.is_mariadb
    /\ mysql_rec.mariadb_ext_cap # 0

\* C17: the MariaDB extended-capability field is decoded little-endian: for
\* the bytes b0 b1 b2 b3 in packet order,
\* mariadb_ext_cap = b0 + 256*b1 + 65536*b2 + 16777216*b3.
C17_MariadbExtCapLittleEndian ==
    (ReservedReached /\ mysql_rec.is_mariadb /\ length(ReservedStage.before) >= 10) =>
        mysql_rec.mariadb_ext_cap =
            ReservedStage.before.bytes[7] + 256 * ReservedStage.before.bytes[8]
            + 65536 * ReservedStage.before.bytes[9]
            + 16777216 * ReservedStage.before.bytes[10]

\* the fixed fields of the greeting were read and the version check passed
FlagsAssigned == MysqlConstructed /\ version_ok(mysql_rec.version)

\* the reads of the body named name that the constructor executed
StagesNamed(name) ==
    SelectSeq(mysql_rec.stages, LAMBDA st : st.stage = name)

\* C18: a greeting whose major version character is below '5' and whose
\* auth-plugin length is greater than 0 is invalid, and neither reserved
\* bytes nor salt_2 nor the plugin name are consumed; if_auth_plugin is
\* exactly (auth-plugin length > 0), and when it is true on a record that
\* stays valid, exactly auth_plugin_len + 1 bytes are read as the plugin name.
C18_AuthPlugin ==
    FlagsAssigned =>
        /\ (mysql_rec.version.bytes[1] < 53 /\ mysql_rec.auth_plugin_len > 0)
              => (~ mysql_rec.valid /\ mysql_rec.stages = << >>)
        /\ mysql_rec.if_auth_plugin <=> (mysql_rec.auth_plugin_len > 0)
        /\ (mysql_rec.valid /\ mysql_rec.if_auth_plugin)
              => /\ length(mysql_rec.auth_plugin) = mysql_rec.auth_plugin_len + 1
                 /\ Len(StagesNamed("auth_plugin")) = 1
                 /\ StagesNamed("auth_plugin")[1].after =
                       DatumOf(Drop(StagesNamed("auth_plugin")[1].before.bytes,
                                    mysql_rec.auth_plugin_len + 1))

\* C19: partial_salt is the negation of is_ver_less_41, which holds iff the
\* first version character is below '4', or is '4' and the character at
\* offset 2 is below '1'.  When partial_salt holds, exactly 13 bytes are read
\* as salt_2 and the record is invalid unless all 13 bytes are there and the
\* 13th is NUL; when it does not hold, no salt_2 bytes are consumed.
C19_PartialSalt ==
    /\ FlagsAssigned =>
          (mysql_rec.is_ver_less_41
              <=> \/ mysql_rec.version.bytes[1] < 52
                  \/ (mysql_rec.version.bytes[1] = 52 /\ mysql_rec.version.bytes[3] < 49))
    /\ ReservedReached =>
          /\ mysql_rec.partial_salt <=> ~ mysql_rec.is_ver_less_41
          /\ ~ mysql_rec.partial_salt =>
                (StagesNamed("salt_2") = << >> /\ mysql_rec.salt_2.null)
          /\ mysql_rec.partial_salt =>
                /\ Len(StagesNamed("salt_2")) = 1
                /\ IF length(StagesNamed("salt_2")[1].before) >= 13
                   THEN /\ mysql_rec.salt_2 =
                             DatumOf(SubSeq(StagesNamed("salt_2")[1].before.bytes, 1, 13))
                        /\ StagesNamed("salt_2")[1].after =
                             DatumOf(Drop(StagesNamed("salt_2")[1].before.bytes, 13))
                        /\ StagesNamed("salt_2")[1].before.bytes[13] # 0
                              => ~ mysql_rec.valid
                   ELSE ~ mysql_rec.valid

\* a valid MySQL 4.1.2 greeting: the oldest version with a second salt
C19_Witness ==
    /\ ReservedReached
    /\ mysql_rec.valid
    /\ mysql_rec.version.bytes = Ver_4_1_2
    /\ mysql_rec.partial_salt
    /\ mysql_rec.salt_2 = DatumOf(Salt2A)

\* C20: serialising a valid greeting never indexes the collation table out
\* of range: for every collation id 0..255 of a valid packet, the entry
\* id - 1 that write_json looks up is inside the table.
C20_CollationIndexInRange ==
    (MysqlConstructed /\ mysql_rec.valid /\ mysql_writes > 0) =>
        (mysql_rec.collation - 1 \in 0..(mysql_collations_count - 1))

(***************************************************************************)
(* Claims about the bit-field decoders                                     *)
(***************************************************************************)
\* the entries of the three name tables
TableNames ==
    { options[i] : i \in 1..Len(options) }
    \cup { extended_options[i] : i \in 1..Len(extended_options) }
    \cup { server_status_str[i] : i \in 1..Len(server_status_str) }

\* C21: the three bit-field decoders emit the name at index i of the field's
\* table for the set bits i in 0..15, and index i is inside the table for
\* every 16-bit value: every name they emit is an entry of a table.
C21_NamesComeFromTables ==
    (MysqlConstructed /\ mysql_rec.valid /\ mysql_writes > 0) =>
        \A k \in 1..Len(mysql_out) :
            mysql_out[k][1] = "print_string" => mysql_out[k][2] \in TableNames

(***************************************************************************)
(* Claims about decrypt                                                    *)
(***************************************************************************)
\* the exclusive or of two bytes, by arithmetic
Xor8(a, b) == a + b - 2 * BitAnd(a, b)

\* the rotation of a byte to the left within 8 bits, by arithmetic
Rotl8(c, k) == ((c * Pow2N(k)) % 256) + (c \div Pow2N(8 - k))

\* the state s[i] of the claim, for the i-th byte counted from 1
DecryptState(c, i) == IF i = 1 THEN 198 ELSE Xor8(c[i - 1], 198)

\* C22: for every ciphertext c, p[i] = s[i] XOR rotl8(c[i], 5) with
\* s[0] = 198 and s[i+1] = c[i] XOR 198, where rotl8 rotates within 8 bits,
\* so every p[i] is in 0..255; and the ciphertext buffer is not modified.
C22_DecryptFormula ==
    dec_pc = "done" =>
        /\ Len(dec_st.plaintext) = Len(dec_in)
        /\ \A i \in 1..Len(dec_in) :
              /\ dec_st.plaintext[i] = Xor8(DecryptState(dec_in, i), Rotl8(dec_in[i], 5))
              /\ dec_st.plaintext[i] \in 0..255
        /\ dec_st.plaintext = decrypt(dec_in, dec_len)
        /\ dec_cipher = dec_in

\* the ciphertext 01 80 has been decrypted to e6 d7
C22_Witness ==
    /\ dec_pc = "done"
    /\ dec_in = << 1, 128 >>
    /\ dec_st.plaintext = << 230, 215 >>

(***************************************************************************)
(* Claims about termination                                                *)
(***************************************************************************)
\* http_headers::parse or decrypt has returned
ParsingReturned == http_pc = "done" \/ dec_pc = "done"

\* C23: parsing cannot diverge.  Every iteration of the loop of
\* http_headers::parse either leaves the loop or strictly decreases the
\* remaining length of the cursor, and parse returns on every input; decrypt
\* returns after exactly data_len iterations.
C23_ParsingTerminates ==
    /\ [][ (http_pc = "loop" /\ http_pc' = "loop")
              => parser_get_data_length(http_p') < parser_get_data_length(http_p) ]_vars
    /\ [](dec_pc = "done" =>
              (dec_st.i = dec_len /\ Len(dec_st.plaintext) = dec_len))
    /\ <>ParsingReturned

\* parse has returned after two lines were skipped and the cursor ran out
C23_Witness ==
    /\ http_pc = "done"
    /\ http_buf = << 97, 13, 10, 97, 13, 10 >>
    /\ http_start = 0
    /\ http_p.data = 6
    /\ ~ http_hdr.complete

(***************************************************************************)
(* Claims about the UDP mask and value tables                              *)
(***************************************************************************)
\* the condition that udp_get_message_type evaluates for rule k on the
\* memory at udp_data: the 32-bit comparison for the tables of 8 bytes, the
\* 64-bit comparison for the tables of 16 bytes
RuleHolds(k, data) ==
    IF Len(UdpRules[k].mask) = 16
    THEN u64_compare_masked_data_to_value(data, UdpRules[k].mask, UdpRules[k].value)
    ELSE u32_compare_masked_data_to_value(data, UdpRules[k].mask, UdpRules[k].value)

HoldingRules(data) == { k \in 1..Len(UdpRules) : RuleHolds(k, data) }

\* the tag of the first rule that holds when the rules are tried in the
\* order given
RECURSIVE ClassifyInOrder(_, _)
ClassifyInOrder(order, data) ==
    IF order = << >> THEN "udp_msg_type_unknown"
    ELSE IF RuleHolds(Head(order), data) THEN UdpRules[Head(order)].tag
    ELSE ClassifyInOrder(Tail(order), data)

ReversedOrder == << 7, 6, 5, 4, 3, 2, 1 >>
RotatedOrder  == << 4, 5, 6, 7, 1, 2, 3 >>

\* C24: the seven rules are pairwise disjoint: no memory at udp_data
\* satisfies the conditions of two different rules, so the result for a
\* payload of 8 bytes or more is the same when the rules are tried in another
\* order; in particular nothing that an earlier rule accepts is accepted by
\* the QUIC rule.
C24_RulesPairwiseDisjoint ==
    udp_pc = "done" =>
        /\ \A j, k \in HoldingRules(udp_data) : j = k
        /\ (7 \in HoldingRules(udp_data)) => HoldingRules(udp_data) = {7}
        /\ udp_len >= Len(dhcp_client_mask) =>
               /\ udp_ret = ClassifyInOrder(ReversedOrder, udp_data)
               /\ udp_ret = ClassifyInOrder(RotatedOrder, udp_data)

\* C24 witness: a payload that the WireGuard rule accepts and no other rule
\* does, classified as WireGuard in the order of the code and in the reverse
\* order
C24_Witness ==
    /\ udp_pc = "done"
    /\ udp_len >= Len(dhcp_client_mask)
    /\ HoldingRules(udp_data) = {6}
    /\ udp_ret = "udp_msg_type_wireguard"
    /\ ClassifyInOrder(ReversedOrder, udp_data) = "udp_msg_type_wireguard"

(***************************************************************************)
(* Claims about the library handle                                         *)
(***************************************************************************)
\* the number of calls named c among the calls of the dynamic loader
LoaderCalls(c) == Cardinality({ i \in 1..Len(api_dl) : api_dl[i] = c })

\* the lifetime of the libmerc_api object is over: its constructor threw, or
\* its destructor has run
ApiLifetimeOver == api_pc \in {"threw", "destroyed"}

\* C26: every dlopen of bind that returned a handle is matched by exactly one
\* dlclose of that handle, and dlclose is never called on a null handle,
\* both when bind succeeds and when it fails after the library was loaded
\* because a v1 symbol is missing and the constructor throws.
C26_DlopenMatchedByDlclose ==
    /\ LoaderCalls("dlclose_null") = 0
    /\ LoaderCalls("dlclose") <= LoaderCalls("dlopen")
    /\ ApiLifetimeOver => LoaderCalls("dlclose") = LoaderCalls("dlopen")

(***************************************************************************)
(* Claims about main of libmerc_util                                       *)
(***************************************************************************)
\* the index of the first call named c in main_log, 0 when there is none
FirstCall(c) ==
    IF \E i \in 1..Len(main_log) : main_log[i] = c
    THEN CHOOSE i \in 1..Len(main_log) :
             main_log[i] = c /\ \A j \in 1..(i - 1) : main_log[j] # c
    ELSE 0

\* the library handle has been closed, or the process is over
MainClosedOrOver ==
    FirstCall("dlclose") > 0 \/ main_pc \in {"returned", "exited"}

\* the call c was made, and before the library handle was closed
CalledBeforeClose(c) ==
    /\ FirstCall(c) > 0
    /\ FirstCall("dlclose") > 0 => FirstCall(c) < FirstCall("dlclose")

\* C25: on every path of main that follows a successful mercury init, every
\* packet processor that was constructed is destructed and finalize is
\* called on the context before the library handle is closed or the process
\* exits, also when packet_processor_construct returns NULL and when opening
\* or reading the PCAP file throws.
C25_ContextFinalizedBeforeClose ==
    (FirstCall("mercury_init") > 0 /\ MainClosedOrOver) =>
        /\ CalledBeforeClose("mercury_finalize")
        /\ FirstCall("packet_processor_construct") > 0 =>
               /\ CalledBeforeClose("packet_processor_destruct")
               /\ FirstCall("packet_processor_destruct") < FirstCall("mercury_finalize")

=============================================================================
